---- MODULE Spec2Model ----
(***************************************************************************)
(* PathwayDB storage engine: the key schema (utils/encoding.go), the node, *)
(* edge and graph operations of the Badger-backed engine (storage), and    *)
(* the TTL manager.  Byte strings are sequences of one-character strings,  *)
(* so that key encoding, prefix iteration and the decoders that split on   *)
(* ':' behave as they do on the real keys.                                 *)
(***************************************************************************)
EXTENDS Integers, Sequences, FiniteSets, TLC

VARIABLES
    store,    \* the key-value store: the committed keys with value and TTL
    now,      \* the wall clock
    last,     \* the storage operation just run, with its outcome
    dom,      \* the inputs the clients draw from
    conns,    \* per client connection, the command in flight
    sweeper,  \* the TTL manager's goroutine: its position and collected keys
    engine,   \* the stop channel of the TTL manager and the database handle
    race,     \* the store when the commands in flight began, and those commands
    main      \* the process: the position of main and Server.running

\* the state of the dispatcher's connections and of the background task
procs == <<conns, sweeper, engine, race, main>>

vars == <<store, now, last, dom, conns, sweeper, engine, race, main>>

(***************************************************************************)
(* Bounds of the model.                                                    *)
(***************************************************************************)
\* the clock runs over 0..MaxTime
MaxTime == 2
\* clock ticks per wall-clock hour (the RFC3339 text up to its first ':')
TicksPerHour == 2
\* the largest TTL argument of a command, in clock ticks
MaxTTL == 1
\* the largest number of commands that overlap before all connections are
\* idle again
MaxCommands == 2

(***************************************************************************)
(* Byte strings.                                                           *)
(***************************************************************************)
\* the characters in use, in ASCII order
Alphabet == <<"0", "1", "2", "3", "4", "5", "6", "7", "8", "9", ":", "Z",
              "a", "b", "c", "d", "e", "g", "h", "i", "k", "n", "o", "s",
              "t", "u", "x">>

Ord == [c \in {Alphabet[i] : i \in 1..Len(Alphabet)} |->
          CHOOSE i \in 1..Len(Alphabet) : Alphabet[i] = c]

\* Go's string comparison s < t (bytewise lexicographic)
StrLess(s, t) ==
    \E i \in 1..Len(t) :
        /\ i - 1 <= Len(s)
        /\ \A j \in 1..(i - 1) : s[j] = t[j]
        /\ \/ i = Len(s) + 1
           \/ /\ i <= Len(s)
              /\ Ord[s[i]] < Ord[t[i]]

\* strings.HasPrefix / badger's ValidForPrefix
HasPrefix(s, p) == Len(p) <= Len(s) /\ SubSeq(s, 1, Len(p)) = p

\* strings.Index(s, ":") as a 1-based position, 0 when there is none
IndexColon(s) ==
    IF \E i \in 1..Len(s) : s[i] = ":"
    THEN CHOOSE i \in 1..Len(s) : s[i] = ":" /\ \A j \in 1..(i - 1) : s[j] # ":"
    ELSE 0

\* strings.LastIndex(s, ":") as a 1-based position, 0 when there is none
LastIndexColon(s) ==
    IF \E i \in 1..Len(s) : s[i] = ":"
    THEN CHOOSE i \in 1..Len(s) : s[i] = ":" /\ \A j \in (i + 1)..Len(s) : s[j] # ":"
    ELSE 0

\* strings.Split(s, ":")
RECURSIVE Split(_)
Split(s) ==
    LET i == IndexColon(s) IN
    IF i = 0 THEN <<s>>
    ELSE <<SubSeq(s, 1, i - 1)>> \o Split(SubSeq(s, i + 1, Len(s)))

Colon == <<":">>

(***************************************************************************)
(* Key schema.                                                             *)
(***************************************************************************)
GraphPrefix == <<"g", ":">>
NodePrefix == <<"n", ":">>
EdgePrefix == <<"e", ":">>
NodeIndexPrefix == <<"n", "i", ":">>
TypeIndexPrefix == <<"t", "i", ":">>
ExpiryIndexPrefix == <<"x", "i", ":">>

EncodeGraphKey(g) == GraphPrefix \o g
EncodeNodeKey(g, n) == NodePrefix \o g \o Colon \o n
EncodeEdgeKey(g, e) == EdgePrefix \o g \o Colon \o e
EncodeNodeTypeIndexKey(g, ty, n) ==
    TypeIndexPrefix \o <<"n", ":">> \o g \o Colon \o ty \o Colon \o n
EncodeEdgeTypeIndexKey(g, ty, e) ==
    TypeIndexPrefix \o <<"e", ":">> \o g \o Colon \o ty \o Colon \o e
EncodeNodeOutEdgeIndexKey(g, n, e) ==
    NodeIndexPrefix \o <<"o", "u", "t", ":">> \o g \o Colon \o n \o Colon \o e
EncodeNodeInEdgeIndexKey(g, n, e) ==
    NodeIndexPrefix \o <<"i", "n", ":">> \o g \o Colon \o n \o Colon \o e

\* DeleteNode and GetOutgoingEdges build these two prefixes with Sprintf
OutgoingPrefix(g, n) ==
    NodeIndexPrefix \o <<"o", "u", "t", ":">> \o g \o Colon \o n \o Colon
IncomingPrefix(g, n) ==
    NodeIndexPrefix \o <<"i", "n", ":">> \o g \o Colon \o n \o Colon

CreateNodeIteratorPrefix(g) == NodePrefix \o g \o Colon
CreateEdgeIteratorPrefix(g) == EdgePrefix \o g \o Colon
CreateExpiryIteratorPrefix == ExpiryIndexPrefix

\* the empty string, which the decoders return for a key they reject
Empty == <<>>

\* DecodeNodeKey: the node ID, or "" unless the key splits in exactly two
DecodeNodeKey(key) ==
    IF HasPrefix(key, NodePrefix)
    THEN LET parts == Split(SubSeq(key, Len(NodePrefix) + 1, Len(key))) IN
         IF Len(parts) = 2 THEN parts[2] ELSE Empty
    ELSE Empty

\* DecodeEdgeKey: the edge ID, or "" unless the key splits in exactly two
DecodeEdgeKey(key) ==
    IF HasPrefix(key, EdgePrefix)
    THEN LET parts == Split(SubSeq(key, Len(EdgePrefix) + 1, Len(key))) IN
         IF Len(parts) = 2 THEN parts[2] ELSE Empty
    ELSE Empty

\* time.Format(time.RFC3339) of a UTC instant: "<date>T<hour>:<min>:<sec>Z".
\* The text before the first ':' (date and hour) is one digit here, the
\* minutes and seconds another.
Digit(i) == Alphabet[i + 1]
FormatRFC3339(t) ==
    <<Digit(t \div TicksPerHour), ":", Digit(t % TicksPerHour), "Z">>

EncodeExpiryIndexKey(g, n, expiresAt) ==
    ExpiryIndexPrefix \o FormatRFC3339(expiresAt) \o Colon \o g \o Colon \o n

\* DecodeExpiryIndexKey: <<graphID, nodeID>> cut at the last two colons
DecodeExpiryIndexKey(key) ==
    LET keyStr == IF HasPrefix(key, ExpiryIndexPrefix)
                  THEN SubSeq(key, Len(ExpiryIndexPrefix) + 1, Len(key))
                  ELSE key
        lastColon == LastIndexColon(keyStr)
        remaining == SubSeq(keyStr, 1, lastColon - 1)
        secondLastColon == LastIndexColon(remaining)
    IN  IF lastColon = 0 THEN <<Empty, Empty>>
        ELSE IF secondLastColon = 0 THEN <<Empty, Empty>>
        ELSE <<SubSeq(remaining, secondLastColon + 1, Len(remaining)),
               SubSeq(keyStr, lastColon + 1, Len(keyStr))>>

(***************************************************************************)
(* Entities and their JSON documents.                                      *)
(***************************************************************************)
\* a nil *time.Time (no ExpiresAt), and a KVS entry without TTL
NoExpiry == -1

\* models.Node; CreatedAt and UpdatedAt are not modelled
Node(id, type, attrs, exp) ==
    [kind |-> "node", id |-> id, type |-> type, from |-> Empty, to |-> Empty,
     attrs |-> attrs, exp |-> exp]

\* models.Edge
Edge(id, type, from, to, attrs, exp) ==
    [kind |-> "edge", id |-> id, type |-> type, from |-> from, to |-> to,
     attrs |-> attrs, exp |-> exp]

\* models.Graph; its name and description are one string field here
Graph(id, name) ==
    [kind |-> "graph", id |-> id, type |-> Empty, from |-> Empty, to |-> Empty,
     attrs |-> [name |-> [t |-> "string", v |-> name]], exp |-> NoExpiry]

\* the raw bytes of an ID, as the index entries store them
Bytes(id) ==
    [kind |-> "bytes", id |-> id, type |-> Empty, from |-> Empty, to |-> Empty,
     attrs |-> <<>>, exp |-> NoExpiry]

\* An attribute value is [t |-> "string" | "int" | "float", v |-> text].
\* json.Marshal writes an int and a float64 of the same value as the same
\* JSON number; json.Unmarshal into interface{} reads a number as float64.
AttrsToJSON(attrs) ==
    [k \in DOMAIN attrs |->
        IF attrs[k].t = "string" THEN [j |-> "string", v |-> attrs[k].v]
        ELSE [j |-> "number", v |-> attrs[k].v]]

AttrsFromJSON(doc) ==
    [k \in DOMAIN doc |->
        IF doc[k].j = "string" THEN [t |-> "string", v |-> doc[k].v]
        ELSE [t |-> "float", v |-> doc[k].v]]

ToJSON(x) == [x EXCEPT !.attrs = AttrsToJSON(x.attrs)]
FromJSON(doc) == [doc EXCEPT !.attrs = AttrsFromJSON(doc.attrs)]

(***************************************************************************)
(* The ordered key-value store, as one transaction sees it.  A state s is  *)
(* a function from the live keys to [val, ttl].                            *)
(***************************************************************************)
\* txn.Set
Set(s, key, val) ==
    [k \in DOMAIN s \cup {key} |->
        IF k = key THEN [val |-> val, ttl |-> NoExpiry] ELSE s[k]]

\* txn.SetEntry(NewEntry(key, val).WithTTL(ttl)): the entry expires at
\* expiresAt = now + ttl
SetWithTTL(s, key, val, expiresAt) ==
    [k \in DOMAIN s \cup {key} |->
        IF k = key THEN [val |-> val, ttl |-> expiresAt] ELSE s[k]]

\* txn.Delete: deleting an absent key is no error
Delete(s, key) == [k \in DOMAIN s \ {key} |-> s[k]]

\* txn.Get: ErrKeyNotFound when the key is absent
Has(s, key) == key \in DOMAIN s

\* the keys of S in ascending byte order
RECURSIVE SortKeys(_)
SortKeys(S) ==
    IF S = {} THEN <<>>
    ELSE LET m == CHOOSE k \in S : \A o \in S \ {k} : StrLess(k, o)
         IN  <<m>> \o SortKeys(S \ {m})

\* it.Seek(prefix); it.ValidForPrefix(prefix); it.Next(): the keys the
\* iterator yields, from the state the transaction had when it was created
SeekPrefix(s, prefix) == SortKeys({k \in DOMAIN s : HasPrefix(k, prefix)})

\* a KVS that never drops an entry
ExpireNothing(s, t) == s

\* what the KVS drops when the clock reaches t: entries whose TTL has fired
Expire(s, t) ==
    [k \in {x \in DOMAIN s : s[x].ttl = NoExpiry \/ s[x].ttl > t} |-> s[k]]

\* a transaction's outcome: the error flag and the writes it holds
Result(err, st) == [err |-> err, st |-> st]

(***************************************************************************)
(* Transaction methods for nodes and edges (BadgerTransaction).  Each      *)
(* takes the state s the transaction sees and returns the error flag with  *)
(* the state after the writes made up to the return.                       *)
(***************************************************************************)
\* CreateNode that leaves an already stored node as it is
TxCreateNodeKeepExisting(s, g, node) ==
    IF Has(s, EncodeNodeKey(g, node.id)) THEN Result(FALSE, s)
    ELSE
    LET s1 == Set(s, EncodeNodeKey(g, node.id), ToJSON(node))
        s2 == Set(s1, EncodeNodeTypeIndexKey(g, node.type, node.id), Bytes(node.id))
        s3 == IF node.exp # NoExpiry
              THEN Set(s2, EncodeExpiryIndexKey(g, node.id, node.exp), Bytes(node.id))
              ELSE s2
    IN  Result(FALSE, s3)

\* BadgerTransaction.CreateNode
TxCreateNode(s, g, node) ==
    LET s1 == Set(s, EncodeNodeKey(g, node.id), ToJSON(node))
        s2 == Set(s1, EncodeNodeTypeIndexKey(g, node.type, node.id), Bytes(node.id))
        s3 == IF node.exp # NoExpiry
              THEN Set(s2, EncodeExpiryIndexKey(g, node.id, node.exp), Bytes(node.id))
              ELSE s2
    IN  Result(FALSE, s3)

\* BadgerTransaction.GetNode: found, and the node read
NodeFound(s, g, n) == Has(s, EncodeNodeKey(g, n))
TxGetNode(s, g, n) == FromJSON(s[EncodeNodeKey(g, n)].val)

\* BadgerTransaction.UpdateNode
TxUpdateNode(s, g, node) ==
    IF ~NodeFound(s, g, node.id) THEN Result(TRUE, s)
    ELSE
    LET existingNode == TxGetNode(s, g, node.id)
        s1 == IF existingNode.type # node.type
              THEN Set(Delete(s, EncodeNodeTypeIndexKey(g, existingNode.type, node.id)),
                       EncodeNodeTypeIndexKey(g, node.type, node.id), Bytes(node.id))
              ELSE s
        s2 == IF \/ (existingNode.exp # NoExpiry /\ node.exp = NoExpiry)
                 \/ (existingNode.exp # NoExpiry /\ node.exp # NoExpiry
                       /\ existingNode.exp # node.exp)
              THEN Delete(s1, EncodeExpiryIndexKey(g, existingNode.id, existingNode.exp))
              ELSE s1
        s3 == IF \/ (node.exp # NoExpiry /\ existingNode.exp = NoExpiry)
                 \/ (node.exp # NoExpiry /\ existingNode.exp # NoExpiry
                       /\ node.exp # existingNode.exp)
              THEN Set(s2, EncodeExpiryIndexKey(g, node.id, node.exp), Bytes(node.id))
              ELSE s2
    IN  Result(FALSE, Set(s3, EncodeNodeKey(g, node.id), ToJSON(node)))

\* BadgerTransaction.GetEdge: found, and the edge read
EdgeFound(s, g, e) == Has(s, EncodeEdgeKey(g, e))
TxGetEdge(s, g, e) == FromJSON(s[EncodeEdgeKey(g, e)].val)

\* CreateEdge without the check of the target node
TxCreateEdgeNoTargetCheck(s, g, edge, t) ==
    IF ~NodeFound(s, g, edge.from) THEN Result(TRUE, s)
    ELSE IF edge.exp # NoExpiry /\ ~(edge.exp - t > 0) THEN Result(FALSE, s)
    ELSE
    LET s1 == IF edge.exp # NoExpiry
              THEN SetWithTTL(s, EncodeEdgeKey(g, edge.id), ToJSON(edge), edge.exp)
              ELSE Set(s, EncodeEdgeKey(g, edge.id), ToJSON(edge))
        s2 == Set(s1, EncodeEdgeTypeIndexKey(g, edge.type, edge.id), Bytes(edge.id))
        s3 == Set(s2, EncodeNodeOutEdgeIndexKey(g, edge.from, edge.id), Bytes(edge.id))
        s4 == Set(s3, EncodeNodeInEdgeIndexKey(g, edge.to, edge.id), Bytes(edge.id))
    IN  Result(FALSE, s4)

\* BadgerTransaction.CreateEdge at clock time t
TxCreateEdge(s, g, edge, t) ==
    IF ~NodeFound(s, g, edge.from) THEN Result(TRUE, s)
    ELSE IF ~NodeFound(s, g, edge.to) THEN Result(TRUE, s)
    ELSE IF edge.exp # NoExpiry /\ ~(edge.exp - t > 0) THEN Result(FALSE, s)
    ELSE
    LET s1 == IF edge.exp # NoExpiry
              THEN SetWithTTL(s, EncodeEdgeKey(g, edge.id), ToJSON(edge), edge.exp)
              ELSE Set(s, EncodeEdgeKey(g, edge.id), ToJSON(edge))
        s2 == Set(s1, EncodeEdgeTypeIndexKey(g, edge.type, edge.id), Bytes(edge.id))
        s3 == Set(s2, EncodeNodeOutEdgeIndexKey(g, edge.from, edge.id), Bytes(edge.id))
        s4 == Set(s3, EncodeNodeInEdgeIndexKey(g, edge.to, edge.id), Bytes(edge.id))
    IN  Result(FALSE, s4)

\* BadgerTransaction.DeleteEdge
TxDeleteEdge(s, g, e) ==
    IF ~EdgeFound(s, g, e) THEN Result(TRUE, s)
    ELSE
    LET edge == TxGetEdge(s, g, e)
        s1 == Delete(s, EncodeEdgeKey(g, e))
        s2 == Delete(s1, EncodeEdgeTypeIndexKey(g, edge.type, e))
        s3 == Delete(s2, EncodeNodeOutEdgeIndexKey(g, edge.from, e))
        s4 == Delete(s3, EncodeNodeInEdgeIndexKey(g, edge.to, e))
    IN  Result(FALSE, s4)

\* BadgerTransaction.UpdateEdge at clock time t
TxUpdateEdge(s, g, edge, t) ==
    IF ~EdgeFound(s, g, edge.id) THEN Result(TRUE, s)
    ELSE
    LET existingEdge == TxGetEdge(s, g, edge.id)
        s1 == IF existingEdge.type # edge.type
              THEN Set(Delete(s, EncodeEdgeTypeIndexKey(g, existingEdge.type, edge.id)),
                       EncodeEdgeTypeIndexKey(g, edge.type, edge.id), Bytes(edge.id))
              ELSE s
        changed == existingEdge.from # edge.from \/ existingEdge.to # edge.to
        s2 == Delete(Delete(s1, EncodeNodeOutEdgeIndexKey(g, existingEdge.from, edge.id)),
                     EncodeNodeInEdgeIndexKey(g, existingEdge.to, edge.id))
        s3 == Set(Set(s2, EncodeNodeOutEdgeIndexKey(g, edge.from, edge.id), Bytes(edge.id)),
                  EncodeNodeInEdgeIndexKey(g, edge.to, edge.id), Bytes(edge.id))
        s4 == IF changed THEN s3 ELSE s1
    IN  IF changed /\ ~NodeFound(s2, g, edge.from) THEN Result(TRUE, s2)
        ELSE IF changed /\ ~NodeFound(s2, g, edge.to) THEN Result(TRUE, s2)
        ELSE IF edge.exp # NoExpiry
        THEN IF edge.exp - t > 0
             THEN Result(FALSE, SetWithTTL(s4, EncodeEdgeKey(g, edge.id), ToJSON(edge), edge.exp))
             ELSE TxDeleteEdge(s4, g, edge.id)
        ELSE Result(FALSE, Set(s4, EncodeEdgeKey(g, edge.id), ToJSON(edge)))

\* the two loops of DeleteNode: for each index key the iterator yields, read
\* the edge ID from the entry's value and delete that edge; stop at the
\* first error
RECURSIVE DeleteIndexedEdges(_, _, _, _)
DeleteIndexedEdges(s, snap, keys, g) ==
    IF keys = <<>> THEN Result(FALSE, s)
    ELSE LET r == TxDeleteEdge(s, g, snap[Head(keys)].val.id)
         IN  IF r.err THEN Result(TRUE, r.st)
             ELSE DeleteIndexedEdges(r.st, snap, Tail(keys), g)

\* BadgerTransaction.DeleteNode
TxDeleteNode(s, g, n) ==
    IF ~NodeFound(s, g, n) THEN Result(TRUE, s)
    ELSE
    LET node == TxGetNode(s, g, n)
        s1 == Delete(s, EncodeNodeKey(g, n))
        s2 == Delete(s1, EncodeNodeTypeIndexKey(g, node.type, n))
        s3 == IF node.exp # NoExpiry
              THEN Delete(s2, EncodeExpiryIndexKey(g, node.id, node.exp))
              ELSE s2
        out == DeleteIndexedEdges(s3, s3, SeekPrefix(s3, OutgoingPrefix(g, n)), g)
    IN  IF out.err THEN out
        ELSE DeleteIndexedEdges(out.st, out.st,
                                SeekPrefix(out.st, IncomingPrefix(g, n)), g)

(***************************************************************************)
(* Engine operations that run several steps in one transaction.            *)
(***************************************************************************)
\* phase 1 of DeleteGraph: delete every node whose key decodes; an error of
\* DeleteNode is ignored and the writes it made stay in the transaction
RECURSIVE DeleteGraphNodes(_, _, _)
DeleteGraphNodes(s, keys, g) ==
    IF keys = <<>> THEN s
    ELSE LET nodeID == DecodeNodeKey(Head(keys))
         IN  IF nodeID # Empty
             THEN DeleteGraphNodes(TxDeleteNode(s, g, nodeID).st, Tail(keys), g)
             ELSE DeleteGraphNodes(s, Tail(keys), g)

\* phase 2 of DeleteGraph: delete every remaining edge whose key decodes
RECURSIVE DeleteGraphEdges(_, _, _)
DeleteGraphEdges(s, keys, g) ==
    IF keys = <<>> THEN s
    ELSE LET edgeID == DecodeEdgeKey(Head(keys))
         IN  IF edgeID # Empty
             THEN DeleteGraphEdges(TxDeleteEdge(s, g, edgeID).st, Tail(keys), g)
             ELSE DeleteGraphEdges(s, Tail(keys), g)

\* DeleteGraph that fails when the graph record is not stored
TxDeleteGraphOfStoredOnly(s, g) ==
    IF ~Has(s, EncodeGraphKey(g)) THEN Result(TRUE, s)
    ELSE
    LET s1 == DeleteGraphNodes(s, SeekPrefix(s, CreateNodeIteratorPrefix(g)), g)
        s2 == DeleteGraphEdges(s1, SeekPrefix(s1, CreateEdgeIteratorPrefix(g)), g)
    IN  Result(FALSE, Delete(s2, EncodeGraphKey(g)))

\* BadgerEngine.DeleteGraph, the body of its transaction
TxDeleteGraph(s, g) ==
    LET s1 == DeleteGraphNodes(s, SeekPrefix(s, CreateNodeIteratorPrefix(g)), g)
        s2 == DeleteGraphEdges(s1, SeekPrefix(s1, CreateEdgeIteratorPrefix(g)), g)
    IN  Result(FALSE, Delete(s2, EncodeGraphKey(g)))

\* db.Update that commits the writes of a failed function too
CommitWithoutRollback(s, r) == r.st

\* db.Update: the writes commit unless the function returned an error
Commit(s, r) == IF r.err THEN s ELSE r.st

\* phase 1 of cleanupExpiredNodes: the expiry keys collected at time t, up
\* to the first key whose second ':'-separated part is greater than now
RECURSIVE CollectExpired(_, _)
CollectExpired(keys, nowStr) ==
    IF keys = <<>> THEN <<>>
    ELSE LET parts == Split(Head(keys))
         IN  IF Len(parts) >= 2 /\ StrLess(nowStr, parts[2]) THEN <<>>
             ELSE <<Head(keys)>> \o CollectExpired(Tail(keys), nowStr)

\* phase 2 of cleanupExpiredNodes: one DeleteNode transaction per collected
\* key; a failed deletion is logged and the sweep goes on
RECURSIVE DeleteExpired(_, _)
DeleteExpired(s, keys) ==
    IF keys = <<>> THEN s
    ELSE LET d == DecodeExpiryIndexKey(Head(keys))
         IN  IF d[1] # Empty /\ d[2] # Empty
             THEN DeleteExpired(Commit(s, TxDeleteNode(s, d[1], d[2])), Tail(keys))
             ELSE DeleteExpired(s, Tail(keys))

\* TTLManager.cleanupExpiredNodes at clock time t
CleanupExpiredNodes(s, t) ==
    DeleteExpired(s, CollectExpired(SeekPrefix(s, CreateExpiryIteratorPrefix),
                                    FormatRFC3339(t)))

(***************************************************************************)
(* Read operations of the engine.                                          *)
(***************************************************************************)
\* BadgerEngine.CountNodes / CountEdges
CountNodes(s, g) == Len(SeekPrefix(s, CreateNodeIteratorPrefix(g)))
CountEdges(s, g) == Len(SeekPrefix(s, CreateEdgeIteratorPrefix(g)))

(***************************************************************************)
(* The state machine.  dom holds the inputs the clients draw from: graph   *)
(* IDs and names, and the node and edge values they submit.  last records  *)
(* the operation just run, its arguments and whether it succeeded.         *)
(***************************************************************************)
Op(op, g, arg, ok) == [op |-> op, g |-> g, arg |-> arg, ok |-> ok]

NodeIDs == {n.id : n \in dom.nodes}
EdgeIDs == {e.id : e \in dom.edges}

\* BadgerEngine.CreateGraph
CreateGraph(g, name) ==
    /\ store' = Set(store, EncodeGraphKey(g), ToJSON(Graph(g, name)))
    /\ last' = Op("CreateGraph", g, Graph(g, name), TRUE)
    /\ UNCHANGED <<now, dom, procs>>

\* UpdateGraph that writes the record whether or not the graph is stored
UpdateGraphUpsert(g, name) ==
    /\ store' = Set(store, EncodeGraphKey(g), ToJSON(Graph(g, name)))
    /\ last' = Op("UpdateGraph", g, Graph(g, name), TRUE)
    /\ UNCHANGED <<now, dom, procs>>

\* BadgerEngine.UpdateGraph
UpdateGraph(g, name) ==
    /\ IF Has(store, EncodeGraphKey(g))
       THEN /\ store' = Set(store, EncodeGraphKey(g), ToJSON(Graph(g, name)))
            /\ last' = Op("UpdateGraph", g, Graph(g, name), TRUE)
       ELSE /\ store' = store
            /\ last' = Op("UpdateGraph", g, Graph(g, name), FALSE)
    /\ UNCHANGED <<now, dom, procs>>

\* BadgerEngine.DeleteGraph
DeleteGraph(g) ==
    LET r == TxDeleteGraph(store, g) IN
    /\ store' = Commit(store, r)
    /\ last' = Op("DeleteGraph", g, Bytes(g), ~r.err)
    /\ UNCHANGED <<now, dom, procs>>

\* BadgerEngine.CreateNode
CreateNode(g, node) ==
    LET r == TxCreateNode(store, g, node) IN
    /\ store' = Commit(store, r)
    /\ last' = Op("CreateNode", g, node, ~r.err)
    /\ UNCHANGED <<now, dom, procs>>

\* BadgerEngine.UpdateNode
UpdateNode(g, node) ==
    LET r == TxUpdateNode(store, g, node) IN
    /\ store' = Commit(store, r)
    /\ last' = Op("UpdateNode", g, node, ~r.err)
    /\ UNCHANGED <<now, dom, procs>>

\* BadgerEngine.DeleteNode
DeleteNode(g, n) ==
    LET r == TxDeleteNode(store, g, n) IN
    /\ store' = Commit(store, r)
    /\ last' = Op("DeleteNode", g, Bytes(n), ~r.err)
    /\ UNCHANGED <<now, dom, procs>>

\* BadgerEngine.CreateEdge
CreateEdge(g, edge) ==
    LET r == TxCreateEdge(store, g, edge, now) IN
    /\ store' = Commit(store, r)
    /\ last' = Op("CreateEdge", g, edge, ~r.err)
    /\ UNCHANGED <<now, dom, procs>>

\* BadgerEngine.UpdateEdge
UpdateEdge(g, edge) ==
    LET r == TxUpdateEdge(store, g, edge, now) IN
    /\ store' = Commit(store, r)
    /\ last' = Op("UpdateEdge", g, edge, ~r.err)
    /\ UNCHANGED <<now, dom, procs>>

\* BadgerEngine.DeleteEdge
DeleteEdge(g, e) ==
    LET r == TxDeleteEdge(store, g, e) IN
    /\ store' = Commit(store, r)
    /\ last' = Op("DeleteEdge", g, Bytes(e), ~r.err)
    /\ UNCHANGED <<now, dom, procs>>

\* TTLManager.Cleanup, and the sweeper's tick
Cleanup ==
    /\ store' = CleanupExpiredNodes(store, now)
    /\ last' = Op("Cleanup", Empty, Bytes(Empty), TRUE)
    /\ UNCHANGED <<now, dom, procs>>

\* the clock advances; the KVS drops the entries whose TTL has fired
AdvanceClock ==
    /\ now < MaxTime
    /\ now' = now + 1
    /\ store' = Expire(store, now + 1)
    /\ last' = Op("AdvanceClock", Empty, Bytes(Empty), TRUE)
    /\ UNCHANGED <<dom, procs>>

Next ==
    \/ \E g \in dom.graphs, name \in dom.names : CreateGraph(g, name)
    \/ \E g \in dom.graphs, name \in dom.names : UpdateGraph(g, name)
    \/ \E g \in dom.graphs : DeleteGraph(g)
    \/ \E g \in dom.graphs, node \in dom.nodes : CreateNode(g, node)
    \/ \E g \in dom.graphs, node \in dom.nodes : UpdateNode(g, node)
    \/ \E g \in dom.graphs, n \in NodeIDs : DeleteNode(g, n)
    \/ \E g \in dom.graphs, edge \in dom.edges : CreateEdge(g, edge)
    \/ \E g \in dom.graphs, edge \in dom.edges : UpdateEdge(g, edge)
    \/ \E g \in dom.graphs, e \in EdgeIDs : DeleteEdge(g, e)
    \/ Cleanup
    \/ AdvanceClock

\* the empty store of a freshly opened database
EmptyStore == [k \in {} |-> [val |-> Bytes(Empty), ttl |-> NoExpiry]]

\* a connection with no command in flight
Idle == [cmd |-> "idle"]

\* no commands in flight
NoRace == [base |-> EmptyStore, cmds |-> <<>>]

\* the engine just opened on the store s: the TTL manager started, every
\* connection idle
InitStored(d, s) ==
    /\ store = s
    /\ now = 0
    /\ last = Op("Open", Empty, Bytes(Empty), TRUE)
    /\ dom = d
    /\ conns = [c \in d.clients |-> Idle]
    /\ sweeper = [pc |-> "waiting", keys |-> <<>>, tick |-> FALSE]
    /\ engine = [stopped |-> FALSE, closed |-> FALSE]
    /\ race = NoRace
    /\ main = [pc |-> "serving", running |-> TRUE]

InitWith(d) == InitStored(d, EmptyStore)

(***************************************************************************)
(* Dispatcher commands (redis/commands).  NODE.UPDATE and EDGE.UPDATE make *)
(* two calls of the storage engine, GetNode/GetEdge and then UpdateNode/   *)
(* UpdateEdge; the connection's record holds the entity between the two.   *)
(***************************************************************************)
NoTTL == -1

\* the entity a handler passes to the update: the one it read, with the new
\* attributes and, when a TTL argument was given, the new expiry
WithUpdate(existing, attrs, ttlSeconds, t) ==
    [existing EXCEPT !.attrs = attrs,
                     !.exp = IF ttlSeconds = NoTTL THEN @
                             ELSE IF ttlSeconds = 0 THEN NoExpiry
                             ELSE t + ttlSeconds]

\* a command as the client sent it, with the time at which its handler
\* read the clock
Command(cmd, g, id, attrs, ttlSeconds, t) ==
    [cmd |-> cmd, g |-> g, id |-> id, attrs |-> attrs, ttl |-> ttlSeconds, at |-> t]

OthersIdle(c) == \A o \in DOMAIN conns \ {c} : conns[o] = Idle

\* the record of the commands in flight when one more command begins, and
\* when the command of connection c has returned; nothing is recorded when
\* c is the only connection
RaceBegin(c, command) ==
    IF DOMAIN conns = {c} THEN NoRace
    ELSE IF OthersIdle(c) THEN [base |-> store, cmds |-> <<command>>]
    ELSE [race EXCEPT !.cmds = Append(@, command)]
RaceEnd(c) == IF OthersIdle(c) THEN NoRace ELSE race

\* NodeCommands.handleUpdate up to its call of GetNode: an error reply when
\* the node is not found
NodeUpdateBegin(c, g, id, attrs, ttlSeconds) ==
    LET command == Command("NODE.UPDATE", g, id, attrs, ttlSeconds, now) IN
    /\ conns[c] = Idle
    /\ Len(race.cmds) < MaxCommands
    /\ IF NodeFound(store, g, id)
       THEN /\ conns' = [conns EXCEPT ![c] =
                   [cmd |-> "NODE.UPDATE", g |-> g, command |-> command,
                    entity |-> WithUpdate(TxGetNode(store, g, id), attrs, ttlSeconds, now)]]
            /\ race' = RaceBegin(c, command)
            /\ last' = Op("GetNode", g, Bytes(id), TRUE)
       ELSE /\ conns' = conns
            /\ race' = IF OthersIdle(c) THEN race ELSE RaceBegin(c, command)
            /\ last' = Op("GetNode", g, Bytes(id), FALSE)
    /\ UNCHANGED <<store, now, dom, sweeper, engine, main>>

\* NodeCommands.handleUpdate from its call of UpdateNode to the reply
NodeUpdateFinish(c) ==
    /\ conns[c].cmd = "NODE.UPDATE"
    /\ LET r == TxUpdateNode(store, conns[c].g, conns[c].entity) IN
          /\ store' = Commit(store, r)
          /\ last' = Op("NODE.UPDATE", conns[c].g, conns[c].command, ~r.err)
    /\ conns' = [conns EXCEPT ![c] = Idle]
    /\ race' = RaceEnd(c)
    /\ UNCHANGED <<now, dom, sweeper, engine, main>>

\* EdgeCommands.handleUpdate up to its call of GetEdge
EdgeUpdateBegin(c, g, id, attrs, ttlSeconds) ==
    LET command == Command("EDGE.UPDATE", g, id, attrs, ttlSeconds, now) IN
    /\ conns[c] = Idle
    /\ Len(race.cmds) < MaxCommands
    /\ IF EdgeFound(store, g, id)
       THEN /\ conns' = [conns EXCEPT ![c] =
                   [cmd |-> "EDGE.UPDATE", g |-> g, command |-> command,
                    entity |-> WithUpdate(TxGetEdge(store, g, id), attrs, ttlSeconds, now)]]
            /\ race' = RaceBegin(c, command)
            /\ last' = Op("GetEdge", g, Bytes(id), TRUE)
       ELSE /\ conns' = conns
            /\ race' = IF OthersIdle(c) THEN race ELSE RaceBegin(c, command)
            /\ last' = Op("GetEdge", g, Bytes(id), FALSE)
    /\ UNCHANGED <<store, now, dom, sweeper, engine, main>>

\* EdgeCommands.handleUpdate from its call of UpdateEdge to the reply
EdgeUpdateFinish(c) ==
    /\ conns[c].cmd = "EDGE.UPDATE"
    /\ LET r == TxUpdateEdge(store, conns[c].g, conns[c].entity, now) IN
          /\ store' = Commit(store, r)
          /\ last' = Op("EDGE.UPDATE", conns[c].g, conns[c].command, ~r.err)
    /\ conns' = [conns EXCEPT ![c] = Idle]
    /\ race' = RaceEnd(c)
    /\ UNCHANGED <<now, dom, sweeper, engine, main>>

(***************************************************************************)
(* The TTL manager's goroutine (TTLManager.run) and BadgerEngine.Close.    *)
(* The goroutine waits in a select on the ticker and the stop channel; a   *)
(* sweep is one view transaction that collects keys, then one DeleteNode   *)
(* transaction per collected key.                                          *)
(***************************************************************************)
\* the ticker fires: its channel holds at most one tick
Tick ==
    /\ sweeper.pc # "exited"
    /\ ~sweeper.tick
    /\ sweeper' = [sweeper EXCEPT !.tick = TRUE]
    /\ last' = Op("Tick", Empty, Bytes(Empty), TRUE)
    /\ UNCHANGED <<store, now, dom, conns, engine, race, main>>

\* the select takes the ticker's case, which it may whenever a tick is
\* pending, closed stop channel or not; phase 1 of cleanupExpiredNodes
\* collects the keys, nothing on a closed database
SweepCollect ==
    /\ sweeper.pc = "waiting"
    /\ sweeper.tick
    /\ LET keys == IF engine.closed THEN <<>>
                   ELSE CollectExpired(SeekPrefix(store, CreateExpiryIteratorPrefix),
                                       FormatRFC3339(now))
       IN  sweeper' = [pc   |-> IF keys = <<>> THEN "waiting" ELSE "deleting",
                       keys |-> keys,
                       tick |-> FALSE]
    /\ last' = Op("SweepCollect", Empty, Bytes(Empty), ~engine.closed)
    /\ UNCHANGED <<store, now, dom, conns, engine, race, main>>

\* phase 2 of cleanupExpiredNodes, one turn of its loop: DeleteNode for the
\* next collected key in a transaction of its own; on a closed database the
\* transaction fails and the sweep goes on
SweepDelete ==
    /\ sweeper.pc = "deleting"
    /\ LET d == DecodeExpiryIndexKey(Head(sweeper.keys))
           r == IF d[1] # Empty /\ d[2] # Empty /\ ~engine.closed
                THEN TxDeleteNode(store, d[1], d[2])
                ELSE Result(TRUE, store)
           rest == Tail(sweeper.keys)
       IN  /\ store' = Commit(store, r)
           /\ last' = Op("SweepDelete", d[1], Bytes(d[2]), ~r.err)
           /\ sweeper' = [sweeper EXCEPT
                             !.pc = IF rest = <<>> THEN "waiting" ELSE "deleting",
                             !.keys = rest]
    /\ UNCHANGED <<now, dom, conns, engine, race, main>>

\* the select takes the stop channel's case: run returns
SweeperExit ==
    /\ sweeper.pc = "waiting"
    /\ engine.stopped
    /\ sweeper' = [sweeper EXCEPT !.pc = "exited"]
    /\ last' = Op("SweeperExit", Empty, Bytes(Empty), TRUE)
    /\ UNCHANGED <<store, now, dom, conns, engine, race, main>>

\* BadgerEngine.Close, first half: TTLManager.Stop closes the stop channel
\* and returns at once
EngineStop ==
    /\ ~engine.stopped
    /\ engine' = [engine EXCEPT !.stopped = TRUE]
    /\ last' = Op("Stop", Empty, Bytes(Empty), TRUE)
    /\ UNCHANGED <<store, now, dom, conns, sweeper, race, main>>

\* BadgerEngine.Close, second half: db.Close
EngineCloseDB ==
    /\ engine.stopped
    /\ ~engine.closed
    /\ engine' = [engine EXCEPT !.closed = TRUE]
    /\ last' = Op("Close", Empty, Bytes(Empty), TRUE)
    /\ UNCHANGED <<store, now, dom, conns, sweeper, race, main>>

(***************************************************************************)
(* Graph analysis (GraphAnalyzer).  The analyzer calls the storage engine  *)
(* once per node it visits; each call is a view transaction of its own.    *)
(* The connection's record holds the analyzer's locals between two calls.  *)
(***************************************************************************)
\* BadgerEngine.ListNodes: the records under the graph's node prefix, in
\* key order
ListNodes(s, g) ==
    LET keys == SeekPrefix(s, CreateNodeIteratorPrefix(g))
    IN  [i \in 1..Len(keys) |-> FromJSON(s[keys[i]].val)]

\* the callback of GetOutgoingEdges over the index entries: GetEdge for
\* the edge ID in the entry's value; an entry whose edge is missing is
\* skipped
RECURSIVE EdgesOfIndex(_, _, _)
EdgesOfIndex(s, g, keys) ==
    IF keys = <<>> THEN <<>>
    ELSE LET e == s[Head(keys)].val.id
         IN  (IF EdgeFound(s, g, e) THEN <<TxGetEdge(s, g, e)>> ELSE <<>>)
                 \o EdgesOfIndex(s, g, Tail(keys))

\* BadgerEngine.GetOutgoingEdges
GetOutgoingEdges(s, g, n) ==
    EdgesOfIndex(s, g, SeekPrefix(s, OutgoingPrefix(g, n)))

\* normalizeCycle: the cycle rotated to start with its smallest node ID
normalizeCycle(path) ==
    IF Len(path) <= 1 THEN path
    ELSE LET cycleNodes == SubSeq(path, 1, Len(path) - 1)
             n == Len(cycleNodes)
             minIndex == CHOOSE i \in 1..n :
                            /\ \A j \in 1..n : ~StrLess(cycleNodes[j], cycleNodes[i])
                            /\ \A j \in 1..(i - 1) : StrLess(cycleNodes[i], cycleNodes[j])
             rotated == SubSeq(cycleNodes, minIndex, n)
                            \o SubSeq(cycleNodes, 1, minIndex - 1)
         IN  Append(rotated, rotated[1])

\* the path of the recursion: the current node of every frame
PathOf(frames) == [i \in 1..Len(frames) |-> frames[i].node]

\* blocked[n]: a node is blocked from the entry of its call to its return
Blocked(frames, n) == \E i \in 1..Len(frames) : frames[i].node = n

\* FindAllCycles and findCyclesRecursive from the return of one storage
\* call up to the next one: the loop over the edges of the top frame, the
\* returns of the calls whose edges are used up, the next start node
RECURSIVE Advance(_)
Advance(a) ==
    IF a.frames = <<>>
    THEN IF a.todo = <<>> THEN [a EXCEPT !.pc = "done"]
         ELSE [a EXCEPT !.start = Head(a.todo), !.todo = Tail(a.todo),
                        !.call = Head(a.todo), !.pc = "call"]
    ELSE LET depth == Len(a.frames)
             top == a.frames[depth]
         IN  IF top.edges = <<>>
             THEN Advance([a EXCEPT !.frames = SubSeq(a.frames, 1, depth - 1)])
             ELSE LET neighbor == Head(top.edges).to
                      rest == [a EXCEPT !.frames[depth].edges = Tail(top.edges)]
                  IN  IF neighbor = a.start
                      THEN Advance([rest EXCEPT !.cycles =
                                      Append(@, Append(PathOf(a.frames), a.start))])
                      ELSE IF ~Blocked(a.frames, neighbor)
                      THEN [rest EXCEPT !.call = neighbor, !.pc = "call"]
                      ELSE Advance(rest)

\* FindAllCycles up to its first GetOutgoingEdges: ListNodes on the store s;
\* edgeTypes is options.EdgeTypes, empty for no filter
BeginCyclesFiltered(s, g, edgeTypes) ==
    LET allNodes == ListNodes(s, g)
    IN  Advance([cmd |-> "ANALYSIS.CYCLES", g |-> g, pc |-> "call",
                 edgeTypes |-> edgeTypes,
                 todo |-> [i \in 1..Len(allNodes) |-> allNodes[i].id],
                 start |-> Empty, call |-> Empty, frames |-> <<>>,
                 cycles |-> <<>>, reads |-> {s}])

BeginCycles(s, g) == BeginCyclesFiltered(s, g, {})

\* the edges whose type is one of edgeTypes, all edges if edgeTypes is empty
RECURSIVE FilterEdgeTypes(_, _)
FilterEdgeTypes(edges, edgeTypes) ==
    IF edgeTypes = {} \/ edges = <<>> THEN edges
    ELSE (IF Head(edges).type \in edgeTypes THEN <<Head(edges)>> ELSE <<>>)
             \o FilterEdgeTypes(Tail(edges), edgeTypes)

\* findCyclesRecursive enters a.call: GetOutgoingEdges on the store s
VisitNode(a, s) ==
    Advance([a EXCEPT !.frames = Append(@, [node  |-> a.call,
                                            edges |-> FilterEdgeTypes(
                                                        GetOutgoingEdges(s, a.g, a.call),
                                                        a.edgeTypes)]),
                      !.reads = @ \cup {s}])

\* the deduplicated cycles FindAllCycles returns
UniqueCycles(a) == {normalizeCycle(a.cycles[i]) : i \in 1..Len(a.cycles)}

\* FindAllCycles with every storage call reading the same store s
RECURSIVE RunCycles(_, _)
RunCycles(a, s) ==
    IF a.pc = "done" THEN UniqueCycles(a) ELSE RunCycles(VisitNode(a, s), s)

FindAllCycles(s, g) == RunCycles(BeginCycles(s, g), s)

\* FindAllCycles with options.EdgeTypes set
FindAllCyclesFiltered(s, g, edgeTypes) ==
    RunCycles(BeginCyclesFiltered(s, g, edgeTypes), s)

\* GraphAnalyzer.HasCycles
HasCycles(s, g, edgeTypes) == FindAllCyclesFiltered(s, g, edgeTypes) # {}

\* GetShortestPath, the loop over connectedEdges of the dequeued node
\* (forward direction): an edge counts if its FromNodeID is the current
\* node; a node seen for the first time is marked, gets its parent and its
\* edge, and joins the queue
RECURSIVE ScanEdges(_, _, _)
ScanEdges(b, current, edges) ==
    IF edges = <<>> THEN b
    ELSE LET edge == Head(edges)
             nextNodeID == IF edge.from = current THEN edge.to ELSE Empty
         IN  IF nextNodeID # Empty /\ nextNodeID \notin b.visited
             THEN ScanEdges(
                    [queue   |-> Append(b.queue, nextNodeID),
                     visited |-> b.visited \cup {nextNodeID},
                     parent  |-> [n \in DOMAIN b.parent \cup {nextNodeID} |->
                                    IF n = nextNodeID
                                    THEN [node |-> current, edge |-> edge.id]
                                    ELSE b.parent[n]]],
                    current, Tail(edges))
             ELSE ScanEdges(b, current, Tail(edges))

\* GetShortestPath, the loop over the queue: found when the target is
\* dequeued, not found when the queue runs empty
RECURSIVE SearchQueue(_, _, _, _)
SearchQueue(s, g, toNodeID, b) ==
    IF b.queue = <<>> THEN [found |-> FALSE, parent |-> b.parent]
    ELSE LET current == Head(b.queue)
         IN  IF current = toNodeID THEN [found |-> TRUE, parent |-> b.parent]
             ELSE SearchQueue(s, g, toNodeID,
                              ScanEdges([b EXCEPT !.queue = Tail(b.queue)], current,
                                        GetOutgoingEdges(s, g, current)))

\* GetShortestPath, the reconstruction of the path from the target back
RECURSIVE ReconstructPath(_, _, _, _, _)
ReconstructPath(parent, fromNodeID, currentNode, path, edges) ==
    IF currentNode = fromNodeID
    THEN [path |-> <<fromNodeID>> \o path, edges |-> edges]
    ELSE ReconstructPath(parent, fromNodeID, parent[currentNode].node,
                         <<currentNode>> \o path,
                         <<parent[currentNode].edge>> \o edges)

\* GraphAnalyzer.GetShortestPath with the forward direction
GetShortestPath(s, g, fromNodeID, toNodeID) ==
    LET r == SearchQueue(s, g, toNodeID,
                         [queue |-> <<fromNodeID>>, visited |-> {fromNodeID},
                          parent |-> [n \in {} |-> [node |-> Empty, edge |-> Empty]]])
    IN  IF ~r.found THEN [err |-> TRUE, path |-> <<>>, edges |-> <<>>, length |-> 0]
        ELSE LET p == ReconstructPath(r.parent, fromNodeID, toNodeID, <<>>, <<>>)
             IN  [err |-> FALSE, path |-> p.path, edges |-> p.edges,
                  length |-> Len(p.path) - 1]

\* ANALYSIS.CYCLES arrives: FindAllCycles calls ListNodes
CyclesBegin(c, g) ==
    /\ conns[c] = Idle
    /\ conns' = [conns EXCEPT ![c] = BeginCycles(store, g)]
    /\ last' = Op("ListNodes", g, Bytes(Empty), TRUE)
    /\ UNCHANGED <<store, now, dom, sweeper, engine, race, main>>

\* findCyclesRecursive calls GetOutgoingEdges for the node it enters
CyclesVisit(c) ==
    /\ conns[c].cmd = "ANALYSIS.CYCLES"
    /\ conns[c].pc = "call"
    /\ conns' = [conns EXCEPT ![c] = VisitNode(conns[c], store)]
    /\ last' = Op("GetOutgoingEdges", conns[c].g, Bytes(conns[c].call), TRUE)
    /\ UNCHANGED <<store, now, dom, sweeper, engine, race, main>>

\* FindAllCycles returns the deduplicated cycles
CyclesFinish(c) ==
    /\ conns[c].cmd = "ANALYSIS.CYCLES"
    /\ conns[c].pc = "done"
    /\ conns' = [conns EXCEPT ![c] = Idle]
    /\ last' = Op("ANALYSIS.CYCLES", conns[c].g, UniqueCycles(conns[c]), TRUE)
    /\ UNCHANGED <<store, now, dom, sweeper, engine, race, main>>

(***************************************************************************)
(* Go slices.  A slice is a window [arr, len] on a backing array of the    *)
(* memory mem; the array's length is the slice's capacity.  append writes  *)
(* in place while the capacity lasts and moves to a new array otherwise.   *)
(***************************************************************************)
\* the capacity growslice gives a small slice that is full: 1, then double
GrowCap(cap) == IF cap = 0 THEN 1 ELSE 2 * cap

\* the elements of the slice sl
SliceOf(mem, sl) == SubSeq(mem[sl.arr], 1, sl.len)

\* a slice literal with the elements elems: a new array of that length
MakeSlice(mem, elems) ==
    [mem |-> Append(mem, elems), sl |-> [arr |-> Len(mem) + 1, len |-> Len(elems)]]

\* append(sl, x)
AppendSlice(mem, sl, x) ==
    IF sl.len < Len(mem[sl.arr])
    THEN [mem |-> [mem EXCEPT ![sl.arr][sl.len + 1] = x],
          sl  |-> [sl EXCEPT !.len = sl.len + 1]]
    ELSE LET spare == GrowCap(Len(mem[sl.arr])) - sl.len - 1
             fresh == SliceOf(mem, sl) \o <<x>> \o [i \in 1..spare |-> Empty]
         IN  [mem |-> Append(mem, fresh),
              sl  |-> [arr |-> Len(mem) + 1, len |-> sl.len + 1]]

(***************************************************************************)
(* Path queries of the analyzer, each a function of the store it reads.    *)
(***************************************************************************)
\* AllShortestPaths, the loop over the outgoing edges of the dequeued item:
\* a neighbour that is not on the item's path is queued with the path and
\* the edges appended
RECURSIVE ExploreNeighbors(_, _, _)
ExploreNeighbors(b, current, edges) ==
    IF edges = <<>> THEN b
    ELSE LET edge == Head(edges)
             nextNodeID == edge.to
             inCurrentPath == \E i \in 1..current.path.len :
                                 b.mem[current.path.arr][i] = nextNodeID
         IN  IF inCurrentPath THEN ExploreNeighbors(b, current, Tail(edges))
             ELSE LET newPath == AppendSlice(b.mem, current.path, nextNodeID)
                      newEdges == AppendSlice(newPath.mem, current.edges, edge)
                  IN  ExploreNeighbors(
                        [b EXCEPT !.mem = newEdges.mem,
                                  !.queue = Append(@, [nodeID |-> nextNodeID,
                                                       path   |-> newPath.sl,
                                                       edges  |-> newEdges.sl,
                                                       dist   |-> current.dist + 1])],
                        current, Tail(edges))

\* AllShortestPaths, the loop over the queue
RECURSIVE AllShortestPathsLoop(_, _, _, _, _)
AllShortestPathsLoop(s, g, fromNodeID, toNodeID, b) ==
    IF b.queue = <<>> THEN b.allPaths
    ELSE
    LET current == Head(b.queue)
        rest == [b EXCEPT !.queue = Tail(b.queue)]
    IN  IF b.minDistance # -1 /\ current.dist > b.minDistance THEN b.allPaths
        ELSE IF current.nodeID = toNodeID
        THEN LET found == [fromNodeID |-> fromNodeID,
                           toNodeID |-> toNodeID,
                           path   |-> SliceOf(b.mem, current.path),
                           edges  |-> [i \in 1..current.edges.len |->
                                          b.mem[current.edges.arr][i].id],
                           length |-> current.dist]
                 minDistance == IF b.minDistance = -1 THEN current.dist
                                ELSE b.minDistance
             IN  AllShortestPathsLoop(s, g, fromNodeID, toNodeID,
                    [rest EXCEPT !.minDistance = minDistance,
                                 !.allPaths = IF current.dist = minDistance
                                              THEN Append(@, found) ELSE @])
        ELSE IF /\ current.nodeID \in DOMAIN b.visited
                /\ b.visited[current.nodeID] < current.dist
        THEN AllShortestPathsLoop(s, g, fromNodeID, toNodeID, rest)
        ELSE LET seen == [n \in DOMAIN b.visited \cup {current.nodeID} |->
                            IF n = current.nodeID THEN current.dist
                            ELSE b.visited[n]]
             IN  AllShortestPathsLoop(s, g, fromNodeID, toNodeID,
                    ExploreNeighbors([rest EXCEPT !.visited = seen], current,
                                     GetOutgoingEdges(s, g, current.nodeID)))

\* GraphAnalyzer.AllShortestPaths: the sequence of the paths it returns
AllShortestPaths(s, g, fromNodeID, toNodeID) ==
    LET path  == MakeSlice(<<>>, <<fromNodeID>>)
        edges == MakeSlice(path.mem, <<>>)
    IN  AllShortestPathsLoop(s, g, fromNodeID, toNodeID,
            [queue |-> <<[nodeID |-> fromNodeID, path |-> path.sl,
                          edges |-> edges.sl, dist |-> 0]>>,
             visited |-> [n \in {} |-> 0],
             allPaths |-> <<>>,
             minDistance |-> -1,
             mem |-> edges.mem])

\* a client asks for all shortest paths
QueryAllShortestPaths(g, fromNodeID, toNodeID) ==
    /\ last' = Op("AllShortestPaths", g,
                  [from |-> fromNodeID, to |-> toNodeID,
                   paths |-> AllShortestPaths(store, g, fromNodeID, toNodeID)],
                  TRUE)
    /\ UNCHANGED <<store, now, dom, procs>>

\* a client asks for the shortest path (forward direction)
QueryShortestPath(g, fromNodeID, toNodeID) ==
    LET r == GetShortestPath(store, g, fromNodeID, toNodeID) IN
    /\ last' = Op("GetShortestPath", g,
                  [from |-> fromNodeID, to |-> toNodeID, result |-> r], ~r.err)
    /\ UNCHANGED <<store, now, dom, procs>>

\* a client asks whether the graph has a cycle
QueryHasCycles(g, edgeTypes) ==
    /\ last' = Op("HasCycles", g,
                  [edgeTypes |-> edgeTypes, result |-> HasCycles(store, g, edgeTypes)],
                  TRUE)
    /\ UNCHANGED <<store, now, dom, procs>>

\* a client asks for the cycles of the graph
QueryFindAllCycles(g) ==
    /\ last' = Op("FindAllCycles", g, [cycles |-> FindAllCycles(store, g)], TRUE)
    /\ UNCHANGED <<store, now, dom, procs>>

(***************************************************************************)
(* Traversals of the analyzer.  The options of a traversal are a record    *)
(* [maxDepth, nodeTypes, edgeTypes, stop, direction]: maxDepth -1 for no   *)
(* limit, empty sets for no filter, stop the set of node IDs on which the  *)
(* StopCondition holds, direction "forward", "backward" or "both".         *)
(***************************************************************************)
\* options.StopCondition != nil && options.StopCondition(node)
StopCondition(node, options) == node.id \in options.stop

\* the node-type filter: true without filter, else if the node's type is
\* one of options.NodeTypes
NodeTypeMatch(node, options) ==
    options.nodeTypes = {} \/ node.type \in options.nodeTypes

\* BadgerEngine.GetIncomingEdges
GetIncomingEdges(s, g, n) ==
    EdgesOfIndex(s, g, SeekPrefix(s, IncomingPrefix(g, n)))

\* DepthFirstSearch and findAllPathsRecursive, the switch on options.Direction that fetches the
\* edges of the node
ConnectedEdges(s, g, nodeID, options) ==
    IF options.direction = "forward" THEN GetOutgoingEdges(s, g, nodeID)
    ELSE IF options.direction = "backward" THEN GetIncomingEdges(s, g, nodeID)
    ELSE GetOutgoingEdges(s, g, nodeID) \o GetIncomingEdges(s, g, nodeID)

\* DepthFirstSearch and findAllPathsRecursive, the node an edge leads to from nodeID; Empty if
\* the edge does not touch nodeID on the side the direction asks for
NextNodeID(edge, nodeID, options) ==
    IF options.direction = "forward"
    THEN IF edge.from = nodeID THEN edge.to ELSE Empty
    ELSE IF options.direction = "backward"
    THEN IF edge.to = nodeID THEN edge.from ELSE Empty
    ELSE IF edge.from = nodeID THEN edge.to
    ELSE IF edge.to = nodeID THEN edge.from ELSE Empty

\* DepthFirstSearch, the loop that pushes the neighbours, from the last
\* edge to the first: an edge counts if it leads on from the current node
\* and its other end is not visited
RECURSIVE PushNeighbors(_, _, _, _)
PushNeighbors(b, current, connectedEdges, options) ==
    IF connectedEdges = <<>> THEN b
    ELSE LET edge == connectedEdges[Len(connectedEdges)]
             nextNodeID == NextNodeID(edge, current.nodeID, options)
             before == SubSeq(connectedEdges, 1, Len(connectedEdges) - 1)
         IN  IF nextNodeID # Empty /\ nextNodeID \notin b.visited
             THEN PushNeighbors(
                    [b EXCEPT !.edges = Append(@, edge),
                              !.stack = Append(@, [nodeID |-> nextNodeID,
                                                   depth  |-> current.depth + 1])],
                    current, before, options)
             ELSE PushNeighbors(b, current, before, options)

\* DepthFirstSearch, the loop over the stack
RECURSIVE DepthFirstLoop(_, _, _, _)
DepthFirstLoop(s, g, options, b) ==
    IF b.stack = <<>> THEN b
    ELSE
    LET current == b.stack[Len(b.stack)]
        popped == [b EXCEPT !.stack = SubSeq(b.stack, 1, Len(b.stack) - 1)]
    IN  IF current.nodeID \in b.visited THEN DepthFirstLoop(s, g, options, popped)
        ELSE IF options.maxDepth >= 0 /\ current.depth > options.maxDepth
        THEN DepthFirstLoop(s, g, options, popped)
        ELSE IF ~NodeFound(s, g, current.nodeID) THEN [popped EXCEPT !.err = TRUE]
        ELSE
        LET node == TxGetNode(s, g, current.nodeID)
            marked == [popped EXCEPT !.visited = @ \cup {current.nodeID}]
        IN  IF StopCondition(node, options) THEN DepthFirstLoop(s, g, options, marked)
            ELSE
            LET added == IF NodeTypeMatch(node, options)
                         THEN [marked EXCEPT !.nodes = Append(@, node),
                                             !.path = Append(@, current.nodeID)]
                         ELSE marked
                connectedEdges == FilterEdgeTypes(ConnectedEdges(s, g, current.nodeID, options),
                                                  options.edgeTypes)
            IN  DepthFirstLoop(s, g, options,
                               PushNeighbors(added, current, connectedEdges, options))

\* GraphAnalyzer.DepthFirstSearch
DepthFirstSearch(s, g, startNodeID, options) ==
    LET b == DepthFirstLoop(s, g, options,
                 [stack |-> <<[nodeID |-> startNodeID, depth |-> 0]>>,
                  visited |-> {}, nodes |-> <<>>, edges |-> <<>>, path |-> <<>>,
                  err |-> FALSE])
    IN  [err |-> b.err, nodes |-> b.nodes, edges |-> b.edges, path |-> b.path,
         distance |-> Len(b.path) - 1]

\* a client asks for a depth-first traversal
QueryDepthFirstSearch(g, startNodeID, options) ==
    LET r == DepthFirstSearch(store, g, startNodeID, options) IN
    /\ last' = Op("DepthFirstSearch", g,
                  [start |-> startNodeID, options |-> options, result |-> r], ~r.err)
    /\ UNCHANGED <<store, now, dom, procs>>

\* findAllPathsRecursive, the edges left after the one just traversed is
\* filtered out: only with direction both and not at the start node
PotentialNextEdges(connectedEdges, previousEdgeID, options) ==
    IF options.direction = "both" /\ previousEdgeID # Empty
    THEN SelectSeq(connectedEdges, LAMBDA edge : edge.id # previousEdgeID)
    ELSE connectedEdges

\* the elements lo..hi of the array arr: what a result that holds a slice
\* shows to the caller
Window(mem, w) == SubSeq(mem[w.arr], w.lo, w.hi)

\* append([]T{}, sl...): a new array with the elements of sl
CopySlice(mem, sl) ==
    [mem |-> Append(mem, SliceOf(mem, sl)),
     w   |-> [arr |-> Len(mem) + 1, lo |-> 1, hi |-> sl.len]]

\* cyclePath := currentPath[cycleStartIndex:] and
\* append(cyclePath, cyclePath[0]): in place if currentPath has capacity
\* left, else on a new array
CloseCyclePath(mem, currentPath, cycleStartIndex) ==
    LET first == mem[currentPath.arr][cycleStartIndex] IN
    IF currentPath.len < Len(mem[currentPath.arr])
    THEN [mem |-> [mem EXCEPT ![currentPath.arr][currentPath.len + 1] = first],
          w   |-> [arr |-> currentPath.arr, lo |-> cycleStartIndex,
                   hi |-> currentPath.len + 1]]
    ELSE [mem |-> Append(mem, SubSeq(mem[currentPath.arr], cycleStartIndex,
                                     currentPath.len) \o <<first>>),
          w   |-> [arr |-> Len(mem) + 1, lo |-> 1,
                   hi |-> currentPath.len - cycleStartIndex + 2]]

\* findAllPathsRecursive and its loop over the connected edges.  b holds
\* the memory of the slices, the results and the error; visited holds the
\* nodes of the calls that have not returned.
RECURSIVE findAllPathsRecursive(_, _, _, _, _, _, _, _, _, _)
RECURSIVE ExploreEdges(_, _, _, _, _, _, _, _, _, _)
ExploreEdges(s, g, nodeID, visited, currentPath, currentEdges, depth, options, connectedEdges, b) ==
    IF connectedEdges = <<>> \/ b.err THEN b
    ELSE
    LET edge == Head(connectedEdges)
        nextNodeID == NextNodeID(edge, nodeID, options)
        path == SliceOf(b.mem, currentPath)
        newEdges == AppendSlice(b.mem, currentEdges, edge)
        after ==
            IF nextNodeID = Empty THEN b
            ELSE IF nextNodeID \in visited
            THEN IF \E i \in 1..Len(path) : path[i] = nextNodeID
                 THEN LET cycleStartIndex ==
                              CHOOSE i \in 1..Len(path) :
                                  /\ path[i] = nextNodeID
                                  /\ \A j \in 1..(i - 1) : path[j] # nextNodeID
                          cyclePath == CloseCyclePath(newEdges.mem, currentPath,
                                                      cycleStartIndex)
                      IN  [b EXCEPT
                             !.mem = cyclePath.mem,
                             !.allPaths = Append(@,
                                [nodes |-> SubSeq(path, cycleStartIndex, Len(path))
                                               \o <<nextNodeID>>,
                                 edges |-> [arr |-> newEdges.sl.arr,
                                            lo  |-> cycleStartIndex,
                                            hi  |-> newEdges.sl.len],
                                 path  |-> cyclePath.w,
                                 distance |-> Len(path) - cycleStartIndex + 1])]
                 ELSE [b EXCEPT !.mem = newEdges.mem]
            ELSE findAllPathsRecursive(s, g, nextNodeID, edge.id, visited,
                                       currentPath, newEdges.sl, depth + 1, options,
                                       [b EXCEPT !.mem = newEdges.mem])
    IN  ExploreEdges(s, g, nodeID, visited, currentPath, currentEdges, depth,
                     options, Tail(connectedEdges), after)

findAllPathsRecursive(s, g, nodeID, previousEdgeID, visited, currentPath, currentEdges, depth, options, b) ==
    IF options.maxDepth >= 0 /\ depth > options.maxDepth THEN b
    ELSE IF nodeID \in visited THEN b
    ELSE IF ~NodeFound(s, g, nodeID) THEN [b EXCEPT !.err = TRUE]
    ELSE
    LET node == TxGetNode(s, g, nodeID) IN
    IF StopCondition(node, options) THEN b
    ELSE
    LET added == IF NodeTypeMatch(node, options)
                 THEN AppendSlice(b.mem, currentPath, nodeID)
                 ELSE [mem |-> b.mem, sl |-> currentPath]
        connectedEdges ==
            PotentialNextEdges(
                FilterEdgeTypes(ConnectedEdges(s, g, nodeID, options),
                                options.edgeTypes),
                previousEdgeID, options)
    IN  IF connectedEdges = <<>>
        THEN IF added.sl.len > 0
             THEN LET edges == CopySlice(added.mem, currentEdges)
                      path == CopySlice(edges.mem, added.sl)
                  IN  [b EXCEPT
                         !.mem = path.mem,
                         !.allPaths = Append(@,
                            [nodes |-> SliceOf(added.mem, added.sl),
                             edges |-> edges.w,
                             path  |-> path.w,
                             distance |-> added.sl.len - 1])]
             ELSE [b EXCEPT !.mem = added.mem]
        ELSE ExploreEdges(s, g, nodeID, visited \cup {nodeID}, added.sl,
                          currentEdges, depth, options, connectedEdges,
                          [b EXCEPT !.mem = added.mem])

\* GraphAnalyzer.AllPathsTraversal: the results as the caller reads them
\* after the return, nodes and path as node IDs and edges as edge IDs
AllPathsTraversal(s, g, startNodeID, options) ==
    LET currentPath == MakeSlice(<<>>, <<>>)
        currentEdges == MakeSlice(currentPath.mem, <<>>)
        b == findAllPathsRecursive(s, g, startNodeID, Empty, {}, currentPath.sl,
                                   currentEdges.sl, 0, options,
                                   [mem |-> currentEdges.mem, allPaths |-> <<>>,
                                    err |-> FALSE])
    IN  [err |-> b.err,
         paths |-> IF b.err THEN <<>>
                   ELSE [i \in 1..Len(b.allPaths) |->
                           LET edges == Window(b.mem, b.allPaths[i].edges) IN
                           [nodes |-> b.allPaths[i].nodes,
                            edges |-> [j \in 1..Len(edges) |-> edges[j].id],
                            path  |-> Window(b.mem, b.allPaths[i].path),
                            distance |-> b.allPaths[i].distance]]]

\* a client asks for all paths from a node
QueryAllPathsTraversal(g, startNodeID, options) ==
    LET r == AllPathsTraversal(store, g, startNodeID, options) IN
    /\ last' = Op("AllPathsTraversal", g,
                  [start |-> startNodeID, options |-> options, result |-> r], ~r.err)
    /\ UNCHANGED <<store, now, dom, procs>>

\* GraphAnalyzer.GetRootNodes: the listed nodes without incoming edge of
\* the types of the filter
GetRootNodes(s, g, edgeTypes) ==
    SelectSeq(ListNodes(s, g),
              LAMBDA node : FilterEdgeTypes(GetIncomingEdges(s, g, node.id),
                                            edgeTypes) = <<>>)

\* calculateNodeDepth and its loop over the outgoing edges: a visited
\* node returns the depth it is reached at, any other node the largest
\* depth its children return; visited holds the nodes of the calls that
\* have not returned
RECURSIVE calculateNodeDepth(_, _, _, _, _)
RECURSIVE MaxChildDepth(_, _, _, _, _, _)
MaxChildDepth(s, g, visited, currentDepth, outgoingEdges, maxChildDepth) ==
    IF outgoingEdges = <<>> THEN maxChildDepth
    ELSE LET childDepth == calculateNodeDepth(s, g, Head(outgoingEdges).to,
                                              visited, currentDepth + 1)
         IN  MaxChildDepth(s, g, visited, currentDepth, Tail(outgoingEdges),
                           IF childDepth > maxChildDepth THEN childDepth
                           ELSE maxChildDepth)

calculateNodeDepth(s, g, nodeID, visited, currentDepth) ==
    IF nodeID \in visited THEN currentDepth
    ELSE MaxChildDepth(s, g, visited \cup {nodeID}, currentDepth,
                       GetOutgoingEdges(s, g, nodeID), currentDepth)

\* GetMaxDepth, the loop over the root nodes
RECURSIVE MaxRootDepth(_, _, _, _)
MaxRootDepth(s, g, rootNodes, maxDepth) ==
    IF rootNodes = <<>> THEN maxDepth
    ELSE LET depth == calculateNodeDepth(s, g, Head(rootNodes).id, {}, 0)
         IN  MaxRootDepth(s, g, Tail(rootNodes),
                          IF depth > maxDepth THEN depth ELSE maxDepth)

\* GraphAnalyzer.GetMaxDepth
GetMaxDepth(s, g, edgeTypes) == MaxRootDepth(s, g, GetRootNodes(s, g, edgeTypes), 0)

\* a client asks for the maximum depth of the graph
QueryMaxDepth(g) ==
    /\ last' = Op("GetMaxDepth", g, [result |-> GetMaxDepth(store, g, {})], TRUE)
    /\ UNCHANGED <<store, now, dom, procs>>

(***************************************************************************)
(* Read commands of the dispatcher.  A reply is [type, values]: the        *)
(* protocol null, an error, or an array of strings.                        *)
(***************************************************************************)
\* protocol.NewNullResponse
NewNullResponse == [type |-> "null", values |-> <<>>]

\* Server.handleConnection for a handler that returns an error
ErrorReply == [type |-> "error", values |-> <<>>]

\* protocol.NewArrayResponse
NewArrayResponse(values) == [type |-> "array", values |-> values]

\* what a Get of the engine returns: the record and no error, or nil and
\* a 'not found' error
Found(record) == [nil |-> FALSE, err |-> FALSE, value |-> record]
NotFound == [nil |-> TRUE, err |-> TRUE, value |-> Bytes(Empty)]

\* BadgerEngine.GetNode, GetEdge and GetGraph
EngineGetNode(s, g, n) ==
    IF NodeFound(s, g, n) THEN Found(TxGetNode(s, g, n)) ELSE NotFound
EngineGetEdge(s, g, e) ==
    IF EdgeFound(s, g, e) THEN Found(TxGetEdge(s, g, e)) ELSE NotFound
EngineGetGraph(s, g) ==
    IF Has(s, EncodeGraphKey(g)) THEN Found(FromJSON(s[EncodeGraphKey(g)].val))
    ELSE NotFound

\* node.ExpiresAt.Format(time.RFC3339), "" for nil
ExpiresAtStr(x) == IF x.exp = NoExpiry THEN Empty ELSE FormatRFC3339(x.exp)

\* NodeCommands.handleGet
NodeHandleGet(s, g, id) ==
    LET r == EngineGetNode(s, g, id) IN
    IF r.err THEN ErrorReply
    ELSE IF r.nil THEN NewNullResponse
    ELSE NewArrayResponse(<<r.value.id, r.value.type, AttrsToJSON(r.value.attrs),
                            ExpiresAtStr(r.value)>>)

\* EdgeCommands.handleGet
EdgeHandleGet(s, g, id) ==
    LET r == EngineGetEdge(s, g, id) IN
    IF r.err THEN ErrorReply
    ELSE IF r.nil THEN NewNullResponse
    ELSE NewArrayResponse(<<r.value.id, r.value.from, r.value.to, r.value.type,
                            AttrsToJSON(r.value.attrs), ExpiresAtStr(r.value)>>)

\* GraphCommands.handleGet; the counts are numbers here
GraphHandleGet(s, g) ==
    LET r == EngineGetGraph(s, g) IN
    IF r.err THEN ErrorReply
    ELSE IF r.nil THEN NewNullResponse
    ELSE NewArrayResponse(<<r.value.id, AttrsToJSON(r.value.attrs),
                            CountNodes(s, r.value.id), CountEdges(s, r.value.id)>>)

\* NodeCommands.handleList, the loop that fills the result
RECURSIVE IDsAndTypes(_)
IDsAndTypes(nodes) ==
    IF nodes = <<>> THEN <<>>
    ELSE <<Head(nodes).id, Head(nodes).type>> \o IDsAndTypes(Tail(nodes))

\* NodeCommands.handleList
NodeHandleList(s, g) == NewArrayResponse(IDsAndTypes(ListNodes(s, g)))

\* a client sends GRAPH.GET, NODE.GET, EDGE.GET or NODE.LIST
GraphGet(g) ==
    LET reply == GraphHandleGet(store, g) IN
    /\ last' = Op("GRAPH.GET", g, [id |-> g, reply |-> reply], reply.type # "error")
    /\ UNCHANGED <<store, now, dom, procs>>

NodeGet(g, id) ==
    LET reply == NodeHandleGet(store, g, id) IN
    /\ last' = Op("NODE.GET", g, [id |-> id, reply |-> reply], reply.type # "error")
    /\ UNCHANGED <<store, now, dom, procs>>

EdgeGet(g, id) ==
    LET reply == EdgeHandleGet(store, g, id) IN
    /\ last' = Op("EDGE.GET", g, [id |-> id, reply |-> reply], reply.type # "error")
    /\ UNCHANGED <<store, now, dom, procs>>

NodeList(g) ==
    LET reply == NodeHandleList(store, g) IN
    /\ last' = Op("NODE.LIST", g, [id |-> g, reply |-> reply], reply.type # "error")
    /\ UNCHANGED <<store, now, dom, procs>>

\* buildArrow: "<-" for an edge from toNode to fromNode, else "->"
buildArrow(fromNode, toNode, edge) ==
    IF edge.from = fromNode /\ edge.to = toNode THEN <<"-", ">">>
    ELSE IF edge.to = fromNode /\ edge.from = toNode THEN <<"<", "-">>
    ELSE <<"-", ">">>

\* buildMultiPathResponse, the loop that writes the arrow notation of one
\* path from its node i on: nodes and edges are fetched from the graph
\* whose ID is pathResult.FromNodeID
RECURSIVE BuildArrowPath(_, _, _)
BuildArrowPath(s, pathResult, i) ==
    IF i > Len(pathResult.path) THEN <<>>
    ELSE
    LET graphID == pathResult.fromNodeID
        node == TxGetNode(s, graphID, pathResult.path[i])
        step == IF i < Len(pathResult.path) /\ i <= Len(pathResult.edges)
                THEN IF EdgeFound(s, graphID, pathResult.edges[i])
                     THEN LET edge == TxGetEdge(s, graphID, pathResult.edges[i])
                              arrow == buildArrow(node.id, pathResult.path[i + 1], edge)
                          IN  arrow \o edge.id \o Colon \o edge.type \o arrow
                     ELSE <<"-", ">", "u", "n", "k", "n", "o", "w", "n", ":",
                            "u", "n", "k", "n", "o", "w", "n", "-", ">">>
                ELSE <<>>
    IN  node.id \o Colon \o node.type \o step \o BuildArrowPath(s, pathResult, i + 1)

\* AnalysisCommands.buildMultiPathResponse: the count, then one string per
\* path; an error if a node of a path is not found
buildMultiPathResponse(s, allPaths) ==
    IF \E i \in 1..Len(allPaths) : \E j \in 1..Len(allPaths[i].path) :
          ~NodeFound(s, allPaths[i].fromNodeID, allPaths[i].path[j])
    THEN ErrorReply
    ELSE NewArrayResponse(<<<<Digit(Len(allPaths))>>>>
                          \o [i \in 1..Len(allPaths) |->
                                BuildArrowPath(s, allPaths[i], 1)])

\* AnalysisCommands.handleShortestPath with FORMAT detailed
handleShortestPath(s, g, fromNodeID, toNodeID) ==
    IF GetShortestPath(s, g, fromNodeID, toNodeID).err THEN ErrorReply
    ELSE LET allPaths == AllShortestPaths(s, g, fromNodeID, toNodeID)
         IN  IF allPaths = <<>> THEN NewNullResponse
             ELSE buildMultiPathResponse(s, allPaths)

\* a client sends ANALYSIS.SHORTESTPATH g from to FORMAT detailed
AnalysisShortestPath(g, fromNodeID, toNodeID) ==
    LET reply == handleShortestPath(store, g, fromNodeID, toNodeID) IN
    /\ last' = Op("ANALYSIS.SHORTESTPATH", g,
                  [from |-> fromNodeID, to |-> toNodeID, reply |-> reply],
                  reply.type # "error")
    /\ UNCHANGED <<store, now, dom, procs>>

(***************************************************************************)
(* The process (main).  After Server.Start the main goroutine serves; a    *)
(* second goroutine waits for SIGINT or SIGTERM.                           *)
(***************************************************************************)
\* the signal arrives: the goroutine receives from sigChan
Signal ==
    /\ main.pc = "serving"
    /\ main' = [main EXCEPT !.pc = "signalled"]
    /\ last' = Op("Signal", Empty, Bytes(Empty), TRUE)
    /\ UNCHANGED <<store, now, dom, conns, sweeper, engine, race>>

\* Server.Stop: running is set to false under the mutex; the listener of
\* redcon.ListenAndServe is not touched
ServerStop ==
    /\ main.pc = "signalled"
    /\ main' = [pc |-> "stopped", running |-> FALSE]
    /\ last' = Op("Server.Stop", Empty, Bytes(Empty), TRUE)
    /\ UNCHANGED <<store, now, dom, conns, sweeper, engine, race>>

\* os.Exit(0): the process ends at once, deferred calls of main (the
\* deferred storageEngine.Close) are not run
Exit ==
    /\ main.pc = "stopped"
    /\ main' = [main EXCEPT !.pc = "exited"]
    /\ last' = Op("os.Exit", Empty, Bytes(Empty), TRUE)
    /\ UNCHANGED <<store, now, dom, conns, sweeper, engine, race>>

\* Server.handleConnection routes a command whatever Server.running is;
\* a process that has exited runs nothing
Running == main.pc # "exited"

(***************************************************************************)
(* Engine operations as concurrent KVS transactions.  db.Update runs the   *)
(* closure on the snapshot taken when the transaction begins, and commits  *)
(* its writes unless a key that the closure read has been written by a     *)
(* transaction that committed in between; a closure that returns an error, *)
(* or a commit that finds such a conflict, leaves the store as it is.      *)
(* conns[c] holds the transaction of connection c between its begin and    *)
(* its commit; connection 0 is the sweeper's goroutine.                    *)
(***************************************************************************)
\* the keys that DeleteEdge writes for the stored edge
EdgeKeys(g, edge) ==
    {EncodeEdgeKey(g, edge.id),
     EncodeEdgeTypeIndexKey(g, edge.type, edge.id),
     EncodeNodeOutEdgeIndexKey(g, edge.from, edge.id),
     EncodeNodeInEdgeIndexKey(g, edge.to, edge.id)}

\* the adjacency entries of node n that the iterators of DeleteNode yield
AdjacencyKeys(s, g, n) ==
    {k \in DOMAIN s : HasPrefix(k, OutgoingPrefix(g, n)) \/ HasPrefix(k, IncomingPrefix(g, n))}

\* the keys a closure reads with txn.Get or at an iterator's Item()
ReadKeys(s, op, g, arg) ==
    IF op = "CreateNode" THEN {}
    ELSE IF op = "CreateEdge"
    THEN {EncodeNodeKey(g, arg.from)} \cup
         (IF NodeFound(s, g, arg.from) THEN {EncodeNodeKey(g, arg.to)} ELSE {})
    ELSE {EncodeNodeKey(g, arg.id)} \cup
         (IF NodeFound(s, g, arg.id)
          THEN AdjacencyKeys(s, g, arg.id) \cup
               {EncodeEdgeKey(g, s[k].val.id) : k \in AdjacencyKeys(s, g, arg.id)}
          ELSE {})

\* the keys a closure that returns without error has written
WriteKeys(s, op, g, arg) ==
    IF op = "CreateNode"
    THEN {EncodeNodeKey(g, arg.id), EncodeNodeTypeIndexKey(g, arg.type, arg.id)} \cup
         (IF arg.exp # NoExpiry THEN {EncodeExpiryIndexKey(g, arg.id, arg.exp)} ELSE {})
    ELSE IF op = "CreateEdge"
    THEN IF arg.exp # NoExpiry /\ ~(arg.exp - now > 0) THEN {} ELSE EdgeKeys(g, arg)
    ELSE LET node == TxGetNode(s, g, arg.id) IN
         {EncodeNodeKey(g, arg.id), EncodeNodeTypeIndexKey(g, node.type, arg.id)} \cup
         (IF node.exp # NoExpiry THEN {EncodeExpiryIndexKey(g, node.id, node.exp)} ELSE {}) \cup
         UNION {EdgeKeys(g, TxGetEdge(s, g, s[k].val.id)) : k \in AdjacencyKeys(s, g, arg.id)}

\* the closure of the engine operation op, run on the snapshot s
RunClosure(s, op, g, arg) ==
    IF op = "CreateNode" THEN TxCreateNode(s, g, arg)
    ELSE IF op = "CreateEdge" THEN TxCreateEdge(s, g, arg, now)
    ELSE TxDeleteNode(s, g, arg.id)

\* db.Update up to the return of the closure: the error flag, the keys read
\* and written, and the entries the writes leave
Txn(s, op, g, arg) ==
    LET r == RunClosure(s, op, g, arg)
        writes == IF r.err THEN {} ELSE WriteKeys(s, op, g, arg)
    IN  [cmd |-> "txn", op |-> op, g |-> g, arg |-> arg, err |-> r.err,
         reads |-> ReadKeys(s, op, g, arg),
         writes |-> writes,
         puts |-> [k \in writes \cap DOMAIN r.st |-> r.st[k]],
         conflict |-> FALSE]

\* the store after the commit of the writes of transaction t
ApplyWrites(s, t) ==
    [k \in (DOMAIN s \ t.writes) \cup DOMAIN t.puts |->
        IF k \in DOMAIN t.puts THEN t.puts[k] ELSE s[k]]

\* the transactions in flight after t has committed: each one that has read
\* a key that t wrote will find the conflict at its own commit
AfterCommit(c, t) ==
    [o \in DOMAIN conns |->
        IF o = c THEN Idle
        ELSE IF conns[o] # Idle /\ conns[o].reads \cap t.writes # {}
        THEN [conns[o] EXCEPT !.conflict = TRUE]
        ELSE conns[o]]

\* txn.Commit: a transaction without writes commits at once, one with
\* writes fails with ErrConflict when a key it read has been written
Commits(t) == ~t.err /\ (t.writes = {} \/ ~t.conflict)

\* a connection's call of BadgerEngine.CreateNode, CreateEdge or DeleteNode
\* begins its transaction
TxnBegin(c, op, g, arg) ==
    /\ c # 0
    /\ conns[c] = Idle
    /\ conns' = [conns EXCEPT ![c] = Txn(store, op, g, arg)]
    /\ last' = Op("Begin", g, arg, TRUE)
    /\ UNCHANGED <<store, now, dom, sweeper, engine, race, main>>

\* the transaction of connection c commits or fails, and the call returns
TxnCommit(c) ==
    /\ c # 0
    /\ conns[c] # Idle
    /\ LET t == conns[c] IN
          /\ store' = IF Commits(t) THEN ApplyWrites(store, t) ELSE store
          /\ conns' = IF Commits(t) THEN AfterCommit(c, t)
                      ELSE [conns EXCEPT ![c] = Idle]
          /\ last' = Op(t.op, t.g, t.arg, Commits(t))
    /\ UNCHANGED <<now, dom, sweeper, engine, race, main>>

\* phase 2 of cleanupExpiredNodes, one turn of its loop: the DeleteNode
\* transaction for the next collected key begins
SweepDeleteBegin ==
    /\ sweeper.pc = "deleting"
    /\ conns[0] = Idle
    /\ LET d == DecodeExpiryIndexKey(Head(sweeper.keys)) IN
          /\ d[1] # Empty /\ d[2] # Empty
          /\ conns' = [conns EXCEPT ![0] = Txn(store, "DeleteNode", d[1], [id |-> d[2]])]
          /\ last' = Op("Begin", d[1], [id |-> d[2]], TRUE)
    /\ UNCHANGED <<store, now, dom, sweeper, engine, race, main>>

\* the sweeper's DeleteNode transaction commits or fails; a failure is
\* logged and the sweep goes on with the next key
SweepDeleteCommit ==
    /\ sweeper.pc = "deleting"
    /\ conns[0] # Idle
    /\ LET t == conns[0]
           rest == Tail(sweeper.keys)
       IN  /\ store' = IF Commits(t) THEN ApplyWrites(store, t) ELSE store
           /\ conns' = IF Commits(t) THEN AfterCommit(0, t)
                       ELSE [conns EXCEPT ![0] = Idle]
           /\ last' = Op("SweepDelete", t.g, t.arg, Commits(t))
           /\ sweeper' = [sweeper EXCEPT
                             !.pc = IF rest = <<>> THEN "waiting" ELSE "deleting",
                             !.keys = rest]
    /\ UNCHANGED <<now, dom, engine, race, main>>

(***************************************************************************)
(* BadgerEngine.UpdateGraph as the two transactions it runs: GetGraph in a *)
(* view, then the helper set in an update of its own.                      *)
(***************************************************************************)
\* UpdateGraph up to the return of GetGraph: the call fails when the graph
\* is not found
UpdateGraphBegin(c, g, name) ==
    /\ conns[c] = Idle
    /\ IF Has(store, EncodeGraphKey(g))
       THEN /\ conns' = [conns EXCEPT ![c] =
                   [cmd |-> "UpdateGraph", g |-> g, graph |-> Graph(g, name)]]
            /\ last' = Op("GetGraph", g, Graph(g, name), TRUE)
       ELSE /\ conns' = conns
            /\ last' = Op("UpdateGraph", g, Graph(g, name), FALSE)
    /\ UNCHANGED <<store, now, dom, sweeper, engine, race, main>>

\* UpdateGraph from its call of set: the transaction writes the record and
\* reads nothing
UpdateGraphFinish(c) ==
    /\ conns[c].cmd = "UpdateGraph"
    /\ store' = Set(store, EncodeGraphKey(conns[c].g), ToJSON(conns[c].graph))
    /\ last' = Op("UpdateGraph", conns[c].g, conns[c].graph, TRUE)
    /\ conns' = [conns EXCEPT ![c] = Idle]
    /\ UNCHANGED <<now, dom, sweeper, engine, race, main>>

\* a client asks for the outgoing, or the incoming, edges of a node
QueryOutgoingEdges(g, n) ==
    /\ last' = Op("GetOutgoingEdges", g,
                  [id |-> n, edges |-> GetOutgoingEdges(store, g, n)], TRUE)
    /\ UNCHANGED <<store, now, dom, procs>>

QueryIncomingEdges(g, n) ==
    /\ last' = Op("GetIncomingEdges", g,
                  [id |-> n, edges |-> GetIncomingEdges(store, g, n)], TRUE)
    /\ UNCHANGED <<store, now, dom, procs>>

\* BadgerEngine.ListEdges: the records under the graph's edge prefix, in
\* key order
ListEdges(s, g) ==
    LET keys == SeekPrefix(s, CreateEdgeIteratorPrefix(g))
    IN  [i \in 1..Len(keys) |-> FromJSON(s[keys[i]].val)]

\* a client lists, or counts, the nodes or the edges of a graph
QueryListNodes(g) ==
    /\ last' = Op("ListNodes", g, [nodes |-> ListNodes(store, g)], TRUE)
    /\ UNCHANGED <<store, now, dom, procs>>

QueryListEdges(g) ==
    /\ last' = Op("ListEdges", g, [edges |-> ListEdges(store, g)], TRUE)
    /\ UNCHANGED <<store, now, dom, procs>>

QueryCountNodes(g) ==
    /\ last' = Op("CountNodes", g, [count |-> CountNodes(store, g)], TRUE)
    /\ UNCHANGED <<store, now, dom, procs>>

QueryCountEdges(g) ==
    /\ last' = Op("CountEdges", g, [count |-> CountEdges(store, g)], TRUE)
    /\ UNCHANGED <<store, now, dom, procs>>

(***************************************************************************)
(* Dependencies and dependents.  An options argument is a pointer: Nil, or *)
(* the one-element tuple of the options it points to.                      *)
(***************************************************************************)
Nil == <<>>

\* &types.TraversalOptions{Direction: direction}: the fields not named have
\* their zero value
OptionsWithDirection(direction) ==
    [maxDepth |-> 0, nodeTypes |-> {}, edgeTypes |-> {}, stop |-> {},
     direction |-> direction]

\* options with max_depth -1 and no filter
Unlimited ==
    [maxDepth |-> -1, nodeTypes |-> {}, edgeTypes |-> {}, stop |-> {},
     direction |-> "forward"]

\* the nodes of the traversal's result without the starting node
WithoutStart(result, nodeID) ==
    [err   |-> result.err,
     nodes |-> IF result.err THEN <<>>
               ELSE SelectSeq(result.nodes, LAMBDA node : node.id # nodeID)]

\* GraphAnalyzer.GetAllDependencies
GetAllDependencies(s, g, nodeID, options) ==
    LET opts == IF options = Nil THEN OptionsWithDirection("forward") ELSE options[1]
    IN  WithoutStart(DepthFirstSearch(s, g, nodeID, opts), nodeID)

\* GraphAnalyzer.GetAllDependents
GetAllDependents(s, g, nodeID, options) ==
    LET opts == IF options = Nil THEN OptionsWithDirection("backward")
                ELSE [options[1] EXCEPT !.direction = "backward"]
    IN  WithoutStart(DepthFirstSearch(s, g, nodeID, opts), nodeID)

\* a client asks for the dependencies, or the dependents, of a node
QueryAllDependencies(g, nodeID, options) ==
    LET r == GetAllDependencies(store, g, nodeID, options) IN
    /\ last' = Op("GetAllDependencies", g,
                  [start |-> nodeID, options |-> options, result |-> r], ~r.err)
    /\ UNCHANGED <<store, now, dom, procs>>

QueryAllDependents(g, nodeID, options) ==
    LET r == GetAllDependents(store, g, nodeID, options) IN
    /\ last' = Op("GetAllDependents", g,
                  [start |-> nodeID, options |-> options, result |-> r], ~r.err)
    /\ UNCHANGED <<store, now, dom, procs>>

(***************************************************************************)
(* Input domains.                                                          *)
(***************************************************************************)
NoAttrs == <<>>

\* one graph; node IDs "a", "a:b" and "d", edge IDs "c" and "b:c"; every
\* edge from "a" or "a:b" to "d" or "a" under either edge ID
CascadeDom ==
    [graphs |-> {<<"g">>},
     names  |-> {"G"},
     clients |-> {},
     nodes  |-> {Node(n, <<"s">>, NoAttrs, NoExpiry) :
                    n \in {<<"a">>, <<"a", ":", "b">>, <<"d">>}},
     edges  |-> {Edge(e, <<"k">>, f, t, NoAttrs, NoExpiry) :
                    e \in {<<"c">>, <<"b", ":", "c">>},
                    f \in {<<"a">>, <<"a", ":", "b">>},
                    t \in {<<"d">>}}]

Init == InitWith(CascadeDom)

Spec == Init /\ [][Next]_vars

\* one graph; node "a" submitted with different types, attributes and
\* expiry times, node "d" without expiry; edge "c" from "a" to "d" without
\* and with an expiry time
TTLDom ==
    LET A1 == [p |-> [t |-> "int", v |-> "1"]]
        A2 == [p |-> [t |-> "string", v |-> "x"]]
    IN
    [graphs |-> {<<"g">>},
     names  |-> {"G", "H"},
     clients |-> {},
     nodes  |-> {Node(<<"a">>, <<"s">>, A1, NoExpiry),
                 Node(<<"a">>, <<"t">>, A2, 1),
                 Node(<<"a">>, <<"s">>, A2, 2),
                 Node(<<"d">>, <<"s">>, A1, NoExpiry)},
     edges  |-> {Edge(<<"c">>, <<"k">>, <<"a">>, <<"d">>, NoAttrs, NoExpiry),
                 Edge(<<"c">>, <<"k">>, <<"a">>, <<"d">>, NoAttrs, 1)}]

InitTTL == InitWith(TTLDom)

SpecTTL == InitTTL /\ [][Next]_vars

\* two graphs, "g" and "g:a"; node IDs "b" and "a:b", so that node "a:b" of
\* "g" and node "b" of "g:a" share the key n:g:a:b; edge "c" from "b" to "a:b"
GraphsDom ==
    [graphs |-> {<<"g">>, <<"g", ":", "a">>},
     names  |-> {"G"},
     clients |-> {},
     nodes  |-> {Node(n, <<"s">>, NoAttrs, NoExpiry) :
                    n \in {<<"b">>, <<"a", ":", "b">>}},
     edges  |-> {Edge(<<"c">>, <<"k">>, <<"b">>, <<"a", ":", "b">>, NoAttrs, NoExpiry)}]

InitGraphs == InitWith(GraphsDom)

SpecGraphs == InitGraphs /\ [][Next]_vars

\* one graph and one connection; node "a" submitted with the expiry times 1
\* and 2, node "d" without; edge "c" from "a" to "d" with expiry time 1; the
\* update commands carry one attributes document and no TTL argument or
\* TTL 0
CmdDom ==
    [graphs |-> {<<"g">>},
     names  |-> {"G"},
     clients |-> {1},
     docs   |-> {[p |-> [j |-> "string", v |-> "x"]]},
     ttls   |-> {NoTTL, 0},
     nodes  |-> {Node(<<"a">>, <<"s">>, NoAttrs, 1),
                 Node(<<"a">>, <<"s">>, NoAttrs, 2),
                 Node(<<"d">>, <<"s">>, NoAttrs, NoExpiry)},
     edges  |-> {Edge(<<"c">>, <<"k">>, <<"a">>, <<"d">>, NoAttrs, 1)}]

\* the dispatcher's update commands next to creates, deletes, the sweep and
\* the clock
NextCmd ==
    \/ \E g \in dom.graphs, node \in dom.nodes : CreateNode(g, node)
    \/ \E g \in dom.graphs, n \in NodeIDs : DeleteNode(g, n)
    \/ \E g \in dom.graphs, edge \in dom.edges : CreateEdge(g, edge)
    \/ \E g \in dom.graphs, e \in EdgeIDs : DeleteEdge(g, e)
    \/ \E c \in dom.clients, g \in dom.graphs, n \in NodeIDs,
          doc \in dom.docs, ttl \in dom.ttls :
              NodeUpdateBegin(c, g, n, AttrsFromJSON(doc), ttl)
    \/ \E c \in dom.clients : NodeUpdateFinish(c)
    \/ \E c \in dom.clients, g \in dom.graphs, e \in EdgeIDs,
          doc \in dom.docs, ttl \in dom.ttls :
              EdgeUpdateBegin(c, g, e, AttrsFromJSON(doc), ttl)
    \/ \E c \in dom.clients : EdgeUpdateFinish(c)
    \/ Cleanup
    \/ AdvanceClock

InitCmd == InitWith(CmdDom)

SpecCmd == InitCmd /\ [][NextCmd]_vars

\* node "a" with expiry time 1, node "d", and edge "c" from "a" to "d",
\* created in this order on an empty store at time 0
RaceStore ==
    LET g  == <<"g">>
        s1 == Commit(EmptyStore,
                     TxCreateNode(EmptyStore, g, Node(<<"a">>, <<"s">>, NoAttrs, 1)))
        s2 == Commit(s1, TxCreateNode(s1, g, Node(<<"d">>, <<"s">>, NoAttrs, NoExpiry)))
    IN  Commit(s2, TxCreateEdge(s2, g,
                   Edge(<<"c">>, <<"k">>, <<"a">>, <<"d">>, NoAttrs, 1), 0))

\* two connections that send update commands for node "a" and edge "c",
\* with either of two attribute documents and no TTL argument, TTL 0 or
\* TTL MaxTTL
RaceDom ==
    [graphs |-> {<<"g">>},
     names  |-> {"G"},
     clients |-> {1, 2},
     docs   |-> {[p |-> [j |-> "string", v |-> "x"]],
                 [p |-> [j |-> "string", v |-> "y"]]},
     ttls   |-> {NoTTL, 0, MaxTTL},
     nodes  |-> {Node(<<"a">>, <<"s">>, NoAttrs, 1)},
     edges  |-> {Edge(<<"c">>, <<"k">>, <<"a">>, <<"d">>, NoAttrs, 1)}]

\* the update commands of the connections, and nothing else
NextRace ==
    \/ \E c \in dom.clients, g \in dom.graphs, n \in NodeIDs,
          doc \in dom.docs, ttl \in dom.ttls :
              NodeUpdateBegin(c, g, n, AttrsFromJSON(doc), ttl)
    \/ \E c \in dom.clients : NodeUpdateFinish(c)
    \/ \E c \in dom.clients, g \in dom.graphs, e \in EdgeIDs,
          doc \in dom.docs, ttl \in dom.ttls :
              EdgeUpdateBegin(c, g, e, AttrsFromJSON(doc), ttl)
    \/ \E c \in dom.clients : EdgeUpdateFinish(c)

InitRace == InitStored(RaceDom, RaceStore)

SpecRace == InitRace /\ [][NextRace]_vars

\* one graph; node "a" with expiry time 1 and node "d" without; edge "c"
\* from "a" to "d" without and with expiry time 1
SweepDom ==
    [graphs |-> {<<"g">>},
     names  |-> {"G"},
     clients |-> {},
     nodes  |-> {Node(<<"a">>, <<"s">>, NoAttrs, 1),
                 Node(<<"d">>, <<"s">>, NoAttrs, NoExpiry)},
     edges  |-> {Edge(<<"c">>, <<"k">>, <<"a">>, <<"d">>, NoAttrs, NoExpiry),
                 Edge(<<"c">>, <<"k">>, <<"a">>, <<"d">>, NoAttrs, 1)}]

\* clients that create and delete next to the sweeper's goroutine
NextSweep ==
    \/ \E g \in dom.graphs, node \in dom.nodes : CreateNode(g, node)
    \/ \E g \in dom.graphs, n \in NodeIDs : DeleteNode(g, n)
    \/ \E g \in dom.graphs, edge \in dom.edges : CreateEdge(g, edge)
    \/ Tick
    \/ SweepCollect
    \/ SweepDelete
    \/ AdvanceClock

InitSweep == InitWith(SweepDom)

SpecSweep == InitSweep /\ [][NextSweep]_vars

\* one graph; nodes "a" and "d" with expiry time 1; edge "c" from "a" to
\* "d" without expiry
CloseDom ==
    [graphs |-> {<<"g">>},
     names  |-> {"G"},
     clients |-> {},
     nodes  |-> {Node(<<"a">>, <<"s">>, NoAttrs, 1),
                 Node(<<"d">>, <<"s">>, NoAttrs, 1)},
     edges  |-> {Edge(<<"c">>, <<"k">>, <<"a">>, <<"d">>, NoAttrs, NoExpiry)}]

\* the sweeper's goroutine and Close next to clients, which are served
\* until the database is closed
NextClose ==
    \/ ~engine.closed /\ \E g \in dom.graphs, node \in dom.nodes : CreateNode(g, node)
    \/ ~engine.closed /\ \E g \in dom.graphs, n \in NodeIDs : DeleteNode(g, n)
    \/ ~engine.closed /\ \E g \in dom.graphs, edge \in dom.edges : CreateEdge(g, edge)
    \/ Tick
    \/ SweepCollect
    \/ SweepDelete
    \/ SweeperExit
    \/ EngineStop
    \/ EngineCloseDB
    \/ AdvanceClock

InitClose == InitWith(CloseDom)

SpecClose == InitClose /\ [][NextClose]_vars

\* nodes "a" and "d" of graph "g", and edge "c" from "a" to "d"
AnalysisStore ==
    LET g  == <<"g">>
        s1 == Commit(EmptyStore,
                     TxCreateNode(EmptyStore, g, Node(<<"a">>, <<"s">>, NoAttrs, NoExpiry)))
        s2 == Commit(s1, TxCreateNode(s1, g, Node(<<"d">>, <<"s">>, NoAttrs, NoExpiry)))
    IN  Commit(s2, TxCreateEdge(s2, g,
                   Edge(<<"c">>, <<"k">>, <<"a">>, <<"d">>, NoAttrs, NoExpiry), 0))

\* one connection that runs ANALYSIS.CYCLES; writers create and delete
\* edge "c" from "a" to "d" and edge "e" from "d" to "a"
AnalysisDom ==
    [graphs |-> {<<"g">>},
     names  |-> {"G"},
     clients |-> {1},
     nodes  |-> {Node(n, <<"s">>, NoAttrs, NoExpiry) : n \in {<<"a">>, <<"d">>}},
     edges  |-> {Edge(<<"c">>, <<"k">>, <<"a">>, <<"d">>, NoAttrs, NoExpiry),
                 Edge(<<"e">>, <<"k">>, <<"d">>, <<"a">>, NoAttrs, NoExpiry)}]

\* the analysis next to writers of nodes and edges
NextAnalysis ==
    \/ \E g \in dom.graphs, node \in dom.nodes : CreateNode(g, node)
    \/ \E g \in dom.graphs, n \in NodeIDs : DeleteNode(g, n)
    \/ \E g \in dom.graphs, edge \in dom.edges : CreateEdge(g, edge)
    \/ \E g \in dom.graphs, e \in EdgeIDs : DeleteEdge(g, e)
    \/ \E c \in dom.clients, g \in dom.graphs : CyclesBegin(c, g)
    \/ \E c \in dom.clients : CyclesVisit(c)
    \/ \E c \in dom.clients : CyclesFinish(c)

InitAnalysis == InitStored(AnalysisDom, AnalysisStore)

SpecAnalysis == InitAnalysis /\ [][NextAnalysis]_vars

\* nodes "a", "b", "c", "d" and "e" of graph "g", of type "s" but "c" of
\* type "t"
PathsStore ==
    LET g  == <<"g">>
        s1 == Commit(EmptyStore,
                     TxCreateNode(EmptyStore, g, Node(<<"a">>, <<"s">>, NoAttrs, NoExpiry)))
        s2 == Commit(s1, TxCreateNode(s1, g, Node(<<"b">>, <<"s">>, NoAttrs, NoExpiry)))
        s3 == Commit(s2, TxCreateNode(s2, g, Node(<<"c">>, <<"t">>, NoAttrs, NoExpiry)))
        s4 == Commit(s3, TxCreateNode(s3, g, Node(<<"d">>, <<"s">>, NoAttrs, NoExpiry)))
    IN  Commit(s4, TxCreateNode(s4, g, Node(<<"e">>, <<"s">>, NoAttrs, NoExpiry)))

\* the edges a client may create and delete: the chain a -> b -> c -> d,
\* a second edge c -> e, and the shortcuts a -> c and b -> d
PathsDom ==
    [graphs |-> {<<"g">>},
     names  |-> {"G"},
     clients |-> {},
     nodes  |-> {Node(<<"a">>, <<"s">>, NoAttrs, NoExpiry),
                 Node(<<"b">>, <<"s">>, NoAttrs, NoExpiry),
                 Node(<<"c">>, <<"t">>, NoAttrs, NoExpiry),
                 Node(<<"d">>, <<"s">>, NoAttrs, NoExpiry),
                 Node(<<"e">>, <<"s">>, NoAttrs, NoExpiry)},
     edges  |-> {Edge(<<"h">>, <<"k">>, <<"a">>, <<"b">>, NoAttrs, NoExpiry),
                 Edge(<<"i">>, <<"k">>, <<"b">>, <<"c">>, NoAttrs, NoExpiry),
                 Edge(<<"k">>, <<"k">>, <<"c">>, <<"d">>, NoAttrs, NoExpiry),
                 Edge(<<"n">>, <<"k">>, <<"c">>, <<"e">>, NoAttrs, NoExpiry),
                 Edge(<<"o">>, <<"k">>, <<"a">>, <<"c">>, NoAttrs, NoExpiry),
                 Edge(<<"s">>, <<"k">>, <<"b">>, <<"d">>, NoAttrs, NoExpiry)}]

\* writers of edges next to the path queries
NextPaths ==
    \/ \E g \in dom.graphs, edge \in dom.edges : CreateEdge(g, edge)
    \/ \E g \in dom.graphs, e \in EdgeIDs : DeleteEdge(g, e)
    \/ \E g \in dom.graphs, f \in NodeIDs, t \in NodeIDs :
          QueryAllShortestPaths(g, f, t)
    \/ \E g \in dom.graphs, n \in NodeIDs :
          QueryAllPathsTraversal(g, n, [maxDepth |-> -1, nodeTypes |-> {},
                                        edgeTypes |-> {}, stop |-> {},
                                        direction |-> "both"])

InitPaths == InitStored(PathsDom, PathsStore)

SpecPaths == InitPaths /\ [][NextPaths]_vars

\* one graph; nodes "a" and "c" of type "s" and node "b" of type "t"; the
\* edges of the cycle a -> b -> c -> a, the self-loop a -> a of type "l"
\* and the shortcut a -> c; edge "h" is submitted from "a" to "b" and from
\* "b" to "a"
QueryDom ==
    [graphs |-> {<<"g">>},
     names  |-> {"G"},
     clients |-> {},
     nodes  |-> {Node(<<"a">>, <<"s">>, NoAttrs, NoExpiry),
                 Node(<<"b">>, <<"t">>, NoAttrs, NoExpiry),
                 Node(<<"c">>, <<"s">>, NoAttrs, NoExpiry)},
     edges  |-> {Edge(<<"h">>, <<"k">>, <<"a">>, <<"b">>, NoAttrs, NoExpiry),
                 Edge(<<"h">>, <<"k">>, <<"b">>, <<"a">>, NoAttrs, NoExpiry),
                 Edge(<<"i">>, <<"k">>, <<"b">>, <<"c">>, NoAttrs, NoExpiry),
                 Edge(<<"k">>, <<"k">>, <<"c">>, <<"a">>, NoAttrs, NoExpiry),
                 Edge(<<"n">>, <<"l">>, <<"a">>, <<"a">>, NoAttrs, NoExpiry),
                 Edge(<<"o">>, <<"k">>, <<"a">>, <<"c">>, NoAttrs, NoExpiry)}]

\* writers of nodes and edges next to the analyzer's queries
NextQuery ==
    \/ \E g \in dom.graphs, node \in dom.nodes : CreateNode(g, node)
    \/ \E g \in dom.graphs, n \in NodeIDs : DeleteNode(g, n)
    \/ \E g \in dom.graphs, edge \in dom.edges : CreateEdge(g, edge)
    \/ \E g \in dom.graphs, e \in EdgeIDs : DeleteEdge(g, e)
    \/ \E g \in dom.graphs, f \in NodeIDs, t \in NodeIDs : QueryShortestPath(g, f, t)
    \/ \E g \in dom.graphs, edgeTypes \in {{}, {<<"k">>}} : QueryHasCycles(g, edgeTypes)
    \/ \E g \in dom.graphs : QueryFindAllCycles(g)
    \/ \E g \in dom.graphs, n \in NodeIDs, nodeTypes \in {{}, {<<"s">>}},
          stop \in {{}, {<<"b">>}} :
              QueryDepthFirstSearch(g, n, [maxDepth |-> -1, nodeTypes |-> nodeTypes,
                                           edgeTypes |-> {}, stop |-> stop,
                                           direction |-> "forward"])
    \/ \E g \in dom.graphs, n \in NodeIDs, direction \in {"forward", "both"} :
          QueryAllPathsTraversal(g, n, [maxDepth |-> -1, nodeTypes |-> {},
                                        edgeTypes |-> {}, stop |-> {},
                                        direction |-> direction])
    \/ \E g \in dom.graphs : QueryMaxDepth(g)

InitQuery == InitWith(QueryDom)

SpecQuery == InitQuery /\ [][NextQuery]_vars

\* the analyzer's queries on the graph of CascadeDom, whose node and edge
\* IDs hold ':'
NextCollide ==
    \/ \E g \in dom.graphs, node \in dom.nodes : CreateNode(g, node)
    \/ \E g \in dom.graphs, edge \in dom.edges : CreateEdge(g, edge)
    \/ \E g \in dom.graphs, e \in EdgeIDs : DeleteEdge(g, e)
    \/ \E g \in dom.graphs, n \in NodeIDs :
          QueryDepthFirstSearch(g, n, [maxDepth |-> -1, nodeTypes |-> {},
                                       edgeTypes |-> {}, stop |-> {},
                                       direction |-> "forward"])
    \/ \E g \in dom.graphs, n \in NodeIDs :
          QueryAllPathsTraversal(g, n, [maxDepth |-> -1, nodeTypes |-> {},
                                        edgeTypes |-> {}, stop |-> {},
                                        direction |-> "both"])

InitCollide == InitWith(CascadeDom)

SpecCollide == InitCollide /\ [][NextCollide]_vars

\* one graph; node "a" of type "s", node "b" of type "t" and edge "c"
\* from "a" to "b"
ReadDom ==
    [graphs |-> {<<"g">>},
     names  |-> {"G", "H"},
     clients |-> {},
     nodes  |-> {Node(<<"a">>, <<"s">>, NoAttrs, NoExpiry),
                 Node(<<"b">>, <<"t">>, NoAttrs, NoExpiry)},
     edges  |-> {Edge(<<"c">>, <<"k">>, <<"a">>, <<"b">>, NoAttrs, NoExpiry)}]

\* the dispatcher's read commands next to creates and deletes
NextRead ==
    \/ \E g \in dom.graphs, name \in dom.names : CreateGraph(g, name)
    \/ \E g \in dom.graphs : DeleteGraph(g)
    \/ \E g \in dom.graphs, node \in dom.nodes : CreateNode(g, node)
    \/ \E g \in dom.graphs, n \in NodeIDs : DeleteNode(g, n)
    \/ \E g \in dom.graphs, edge \in dom.edges : CreateEdge(g, edge)
    \/ \E g \in dom.graphs, e \in EdgeIDs : DeleteEdge(g, e)
    \/ \E g \in dom.graphs : GraphGet(g)
    \/ \E g \in dom.graphs, n \in NodeIDs : NodeGet(g, n)
    \/ \E g \in dom.graphs, e \in EdgeIDs : EdgeGet(g, e)
    \/ \E g \in dom.graphs : NodeList(g)

InitRead == InitWith(ReadDom)

SpecRead == InitRead /\ [][NextRead]_vars

\* graphs "g" and "a"; nodes "a" and "b" of type "s" and "c" of type "t";
\* the chain a -> b -> c of the edges "h" and "i" of type "k", which
\* stands for a:service->ab:calls->b:service->bc:writes_to->c:database,
\* and the shortcut "o" from "a" to "c"
ArrowDom ==
    [graphs |-> {<<"g">>, <<"a">>},
     names  |-> {"G"},
     clients |-> {},
     nodes  |-> {Node(<<"a">>, <<"s">>, NoAttrs, NoExpiry),
                 Node(<<"b">>, <<"s">>, NoAttrs, NoExpiry),
                 Node(<<"c">>, <<"t">>, NoAttrs, NoExpiry)},
     edges  |-> {Edge(<<"h">>, <<"k">>, <<"a">>, <<"b">>, NoAttrs, NoExpiry),
                 Edge(<<"i">>, <<"k">>, <<"b">>, <<"c">>, NoAttrs, NoExpiry),
                 Edge(<<"o">>, <<"k">>, <<"a">>, <<"c">>, NoAttrs, NoExpiry)}]

\* the shortest-path command next to the creates of nodes and edges
NextArrow ==
    \/ \E g \in dom.graphs, node \in dom.nodes : CreateNode(g, node)
    \/ \E g \in dom.graphs, edge \in dom.edges : CreateEdge(g, edge)
    \/ \E g \in dom.graphs, e \in EdgeIDs : DeleteEdge(g, e)
    \/ \E g \in dom.graphs, f \in NodeIDs, t \in NodeIDs :
          AnalysisShortestPath(g, f, t)

InitArrow == InitWith(ArrowDom)

SpecArrow == InitArrow /\ [][NextArrow]_vars

\* the process from serving to its exit on a signal: clients and the
\* sweeper's goroutine run until the process has exited
NextMain ==
    \/ Running /\ \E g \in dom.graphs, node \in dom.nodes : CreateNode(g, node)
    \/ Running /\ \E g \in dom.graphs, n \in NodeIDs : DeleteNode(g, n)
    \/ Running /\ \E g \in dom.graphs, edge \in dom.edges : CreateEdge(g, edge)
    \/ Running /\ Tick
    \/ Running /\ SweepCollect
    \/ Running /\ SweepDelete
    \/ Running /\ AdvanceClock
    \/ Signal
    \/ ServerStop
    \/ Exit

InitMain == InitWith(SweepDom)

SpecMain == InitMain /\ [][NextMain]_vars

\* one graph; node "a" submitted with expiry time 0, with expiry time
\* MaxTime and without expiry
ExpiryDom ==
    [graphs |-> {<<"g">>},
     names  |-> {"G"},
     clients |-> {},
     nodes  |-> {Node(<<"a">>, <<"s">>, NoAttrs, 0),
                 Node(<<"a">>, <<"s">>, NoAttrs, MaxTime),
                 Node(<<"a">>, <<"s">>, NoAttrs, NoExpiry)},
     edges  |-> {}]

\* a client that creates the node again and again next to the sweeper's
\* goroutine and the clock
NextExpiry ==
    \/ \E g \in dom.graphs, node \in dom.nodes : CreateNode(g, node)
    \/ Tick
    \/ SweepCollect
    \/ SweepDelete
    \/ AdvanceClock

InitExpiry == InitWith(ExpiryDom)

SpecExpiry == InitExpiry /\ [][NextExpiry]_vars

\* one graph; node "a" with expiry time 1 and node "d" without; edge "c"
\* from "a" to "d"; connection 0 is the sweeper, 1 and 2 are clients
TxnDom ==
    [graphs |-> {<<"g">>},
     names  |-> {"G"},
     clients |-> {0, 1, 2},
     nodes  |-> {Node(<<"a">>, <<"s">>, NoAttrs, 1),
                 Node(<<"d">>, <<"s">>, NoAttrs, NoExpiry)},
     edges  |-> {Edge(<<"c">>, <<"k">>, <<"a">>, <<"d">>, NoAttrs, NoExpiry)}]

\* clients whose transactions overlap with each other and with those of
\* the sweeper
NextTxn ==
    \/ \E c \in dom.clients, g \in dom.graphs, node \in dom.nodes :
          TxnBegin(c, "CreateNode", g, node)
    \/ \E c \in dom.clients, g \in dom.graphs, edge \in dom.edges :
          TxnBegin(c, "CreateEdge", g, edge)
    \/ \E c \in dom.clients, g \in dom.graphs, n \in NodeIDs :
          TxnBegin(c, "DeleteNode", g, [id |-> n])
    \/ \E c \in dom.clients : TxnCommit(c)
    \/ Tick
    \/ SweepCollect
    \/ SweepDeleteBegin
    \/ SweepDeleteCommit
    \/ AdvanceClock

InitTxn == InitWith(TxnDom)

SpecTxn == InitTxn /\ [][NextTxn]_vars

\* two graphs and two clients; node "a" and edge "c" from "a" to "a"
GraphRaceDom ==
    [graphs |-> {<<"g">>, <<"h">>},
     names  |-> {"G", "H"},
     clients |-> {1, 2},
     nodes  |-> {Node(<<"a">>, <<"s">>, NoAttrs, NoExpiry)},
     edges  |-> {Edge(<<"c">>, <<"k">>, <<"a">>, <<"a">>, NoAttrs, NoExpiry)}]

\* clients that create, update and delete graphs; the two transactions of
\* an update interleave with the commands of the other client
NextGraphRace ==
    \/ \E g \in dom.graphs, name \in dom.names : CreateGraph(g, name)
    \/ \E c \in dom.clients, g \in dom.graphs, name \in dom.names :
          UpdateGraphBegin(c, g, name)
    \/ \E c \in dom.clients : UpdateGraphFinish(c)
    \/ \E g \in dom.graphs : DeleteGraph(g)
    \/ \E g \in dom.graphs, node \in dom.nodes : CreateNode(g, node)

InitGraphRace == InitWith(GraphRaceDom)

SpecGraphRace == InitGraphRace /\ [][NextGraphRace]_vars

\* one graph; nodes "a", "b" and "a:b"; edge "c" from "a" to "b", from "b"
\* to "a" and from "a:b" to "b"
AdjacencyDom ==
    [graphs |-> {<<"g">>},
     names  |-> {"G"},
     clients |-> {},
     nodes  |-> {Node(<<"a">>, <<"s">>, NoAttrs, NoExpiry),
                 Node(<<"b">>, <<"s">>, NoAttrs, NoExpiry),
                 Node(<<"a">> \o Colon \o <<"b">>, <<"s">>, NoAttrs, NoExpiry)},
     edges  |-> {Edge(<<"c">>, <<"k">>, <<"a">>, <<"b">>, NoAttrs, NoExpiry),
                 Edge(<<"c">>, <<"k">>, <<"b">>, <<"a">>, NoAttrs, NoExpiry),
                 Edge(<<"c">>, <<"k">>, <<"a">> \o Colon \o <<"b">>, <<"b">>,
                      NoAttrs, NoExpiry)}]

\* clients that create nodes, create, update and delete edges, and ask for
\* the edges of a node
NextAdjacency ==
    \/ \E g \in dom.graphs, node \in dom.nodes : CreateNode(g, node)
    \/ \E g \in dom.graphs, edge \in dom.edges : CreateEdge(g, edge)
    \/ \E g \in dom.graphs, edge \in dom.edges : UpdateEdge(g, edge)
    \/ \E g \in dom.graphs, e \in EdgeIDs : DeleteEdge(g, e)
    \/ \E g \in dom.graphs, n \in NodeIDs : QueryOutgoingEdges(g, n)
    \/ \E g \in dom.graphs, n \in NodeIDs : QueryIncomingEdges(g, n)

InitAdjacency == InitWith(AdjacencyDom)

SpecAdjacency == InitAdjacency /\ [][NextAdjacency]_vars

\* two graphs, "g" and "g:a"; nodes "b" and "d" and edge "c" from "b" to
\* "d": no two of their records share a key
IsolationDom ==
    [graphs |-> {<<"g">>, <<"g", ":", "a">>},
     names  |-> {"G"},
     clients |-> {},
     nodes  |-> {Node(<<"b">>, <<"s">>, NoAttrs, NoExpiry),
                 Node(<<"d">>, <<"s">>, NoAttrs, NoExpiry)},
     edges  |-> {Edge(<<"c">>, <<"k">>, <<"b">>, <<"d">>, NoAttrs, NoExpiry)}]

\* clients that fill the graphs, list and count them, and delete them
NextIsolation ==
    \/ \E g \in dom.graphs, name \in dom.names : CreateGraph(g, name)
    \/ \E g \in dom.graphs, node \in dom.nodes : CreateNode(g, node)
    \/ \E g \in dom.graphs, edge \in dom.edges : CreateEdge(g, edge)
    \/ \E g \in dom.graphs : DeleteGraph(g)
    \/ \E g \in dom.graphs : QueryListNodes(g)
    \/ \E g \in dom.graphs : QueryListEdges(g)
    \/ \E g \in dom.graphs : QueryCountNodes(g)
    \/ \E g \in dom.graphs : QueryCountEdges(g)

InitIsolation == InitWith(IsolationDom)

SpecIsolation == InitIsolation /\ [][NextIsolation]_vars

\* one graph; nodes "a", "b", "c" and "d"; edges a -> b, b -> c and c -> d
\* of type "k" and the shortcut a -> c of type "l"
DepthDom ==
    [graphs |-> {<<"g">>},
     names  |-> {"G"},
     clients |-> {},
     depths |-> {0, 1, 2},
     nodes  |-> {Node(<<"a">>, <<"s">>, NoAttrs, NoExpiry),
                 Node(<<"b">>, <<"s">>, NoAttrs, NoExpiry),
                 Node(<<"c">>, <<"s">>, NoAttrs, NoExpiry),
                 Node(<<"d">>, <<"s">>, NoAttrs, NoExpiry)},
     edges  |-> {Edge(<<"h">>, <<"k">>, <<"a">>, <<"b">>, NoAttrs, NoExpiry),
                 Edge(<<"i">>, <<"k">>, <<"b">>, <<"c">>, NoAttrs, NoExpiry),
                 Edge(<<"o">>, <<"l">>, <<"a">>, <<"c">>, NoAttrs, NoExpiry),
                 Edge(<<"p">>, <<"k">>, <<"c">>, <<"d">>, NoAttrs, NoExpiry)}]

\* clients that build the graph and ask for depth-limited traversals and
\* for the dependencies and dependents of a node
NextDepth ==
    \/ \E g \in dom.graphs, node \in dom.nodes : CreateNode(g, node)
    \/ \E g \in dom.graphs, edge \in dom.edges : CreateEdge(g, edge)
    \/ \E g \in dom.graphs, e \in EdgeIDs : DeleteEdge(g, e)
    \/ \E g \in dom.graphs, n \in NodeIDs, maxDepth \in dom.depths,
          edgeTypes \in {{}, {<<"k">>}} :
              QueryDepthFirstSearch(g, n, [maxDepth |-> maxDepth, nodeTypes |-> {},
                                           edgeTypes |-> edgeTypes, stop |-> {},
                                           direction |-> "forward"])
    \/ \E g \in dom.graphs, n \in NodeIDs, options \in {Nil, <<Unlimited>>} :
          QueryAllDependencies(g, n, options)
    \/ \E g \in dom.graphs, n \in NodeIDs, options \in {Nil, <<Unlimited>>} :
          QueryAllDependents(g, n, options)

InitDepth == InitWith(DepthDom)

SpecDepth == InitDepth /\ [][NextDepth]_vars

(***************************************************************************)
(* Properties of the storage engine.                                       *)
(***************************************************************************)
\* the stored edges of graph g, as get_edge returns them
StoredEdges(s, g) == {TxGetEdge(s, g, e) : e \in {x \in EdgeIDs : EdgeFound(s, g, x)}}

\* C1: after a successful delete_node(g, n) no edge with FromNodeID = n or
\* ToNodeID = n is retrievable by get_edge
C1_DeleteNodeRemovesIncidentEdges ==
    (last.op = "DeleteNode" /\ last.ok) =>
        \A e \in StoredEdges(store, last.g) :
            e.from # last.arg.id /\ e.to # last.arg.id

\* C2: every stored edge's FromNodeID and ToNodeID name nodes that exist in
\* the same graph
C2_EdgesNameExistingNodes ==
    \A g \in dom.graphs : \A e \in StoredEdges(store, g) :
        NodeFound(store, g, e.from) /\ NodeFound(store, g, e.to)

\* C3: create_edge fails whenever an endpoint names no existing node of the
\* graph, and the failed call writes nothing
C3_CreateEdgeNeedsEndpoints ==
    [][(/\ last'.op = "CreateEdge"
        /\ \/ ~NodeFound(store, last'.g, last'.arg.from)
           \/ ~NodeFound(store, last'.g, last'.arg.to))
       => (~last'.ok /\ store' = store)]_vars

\* a create_edge has just failed on its target node alone: the source node
\* exists in the graph, the target does not, although another graph holds a
\* node of that ID
C3_Witness ==
    /\ last.op = "CreateEdge"
    /\ ~last.ok
    /\ NodeFound(store, last.g, last.arg.from)
    /\ ~NodeFound(store, last.g, last.arg.to)
    /\ \E h \in dom.graphs : h # last.g /\ NodeFound(store, h, last.arg.to)

\* the stored nodes of graph g, as get_node returns them
StoredNodes(s, g) == {TxGetNode(s, g, n) : n \in {x \in NodeIDs : NodeFound(s, g, x)}}

\* the index keys the stored nodes and edges account for
NodeTypeKeys(s) ==
    UNION {{EncodeNodeTypeIndexKey(g, n.type, n.id) : n \in StoredNodes(s, g)} : g \in dom.graphs}
EdgeTypeKeys(s) ==
    UNION {{EncodeEdgeTypeIndexKey(g, e.type, e.id) : e \in StoredEdges(s, g)} : g \in dom.graphs}
OutKeys(s) ==
    UNION {{EncodeNodeOutEdgeIndexKey(g, e.from, e.id) : e \in StoredEdges(s, g)} : g \in dom.graphs}
InKeys(s) ==
    UNION {{EncodeNodeInEdgeIndexKey(g, e.to, e.id) : e \in StoredEdges(s, g)} : g \in dom.graphs}

KeysWithPrefix(s, prefix) == {k \in DOMAIN s : HasPrefix(k, prefix)}

\* C4: the indexes are coherent with the records: every stored node and edge
\* has its type-index entry, every stored edge its outgoing entry under its
\* source and its incoming entry under its target, and every index entry
\* belongs to a stored entity with that type or endpoint
C4_IndexesCoherent ==
    /\ \A g \in dom.graphs : \A n \in StoredNodes(store, g) :
          Has(store, EncodeNodeTypeIndexKey(g, n.type, n.id))
    /\ \A g \in dom.graphs : \A e \in StoredEdges(store, g) :
          /\ Has(store, EncodeEdgeTypeIndexKey(g, e.type, e.id))
          /\ Has(store, EncodeNodeOutEdgeIndexKey(g, e.from, e.id))
          /\ Has(store, EncodeNodeInEdgeIndexKey(g, e.to, e.id))
    /\ KeysWithPrefix(store, TypeIndexPrefix \o <<"n", ":">>) \subseteq NodeTypeKeys(store)
    /\ KeysWithPrefix(store, TypeIndexPrefix \o <<"e", ":">>) \subseteq EdgeTypeKeys(store)
    /\ KeysWithPrefix(store, NodeIndexPrefix \o <<"o", "u", "t", ":">>) \subseteq OutKeys(store)
    /\ KeysWithPrefix(store, NodeIndexPrefix \o <<"i", "n", ":">>) \subseteq InKeys(store)

\* the key prefixes of graph g: n:g:, e:g:, ni:*:g:, ti:*:g: and xi:*:g:
GraphKeyPrefixes(g) ==
    {CreateNodeIteratorPrefix(g), CreateEdgeIteratorPrefix(g),
     NodeIndexPrefix \o <<"o", "u", "t", ":">> \o g \o Colon,
     NodeIndexPrefix \o <<"i", "n", ":">> \o g \o Colon,
     TypeIndexPrefix \o <<"n", ":">> \o g \o Colon,
     TypeIndexPrefix \o <<"e", ":">> \o g \o Colon}
    \cup {ExpiryIndexPrefix \o FormatRFC3339(t) \o Colon \o g \o Colon : t \in 0..MaxTime}

\* C5: after delete_graph(g) returns, no key with a prefix of g remains
C5_DeleteGraphLeavesNoKey ==
    (last.op = "DeleteGraph" /\ last.ok) =>
        \A p \in GraphKeyPrefixes(last.g) : KeysWithPrefix(store, p) = {}

\* C6: a successful delete_node(g, n) leaves every other node and every edge
\* not incident on n retrievable with unchanged contents
C6_DeleteNodeFrame ==
    [][(last'.op = "DeleteNode" /\ last'.ok) =>
        /\ \A m \in StoredNodes(store, last'.g) :
              m.id # last'.arg.id => m \in StoredNodes(store', last'.g)
        /\ \A e \in StoredEdges(store, last'.g) :
              (e.from # last'.arg.id /\ e.to # last'.arg.id)
                  => e \in StoredEdges(store', last'.g)]_vars

\* the expiry keys cleanupExpiredNodes collects from store s at time t
Collected(s, t) ==
    LET keys == CollectExpired(SeekPrefix(s, CreateExpiryIteratorPrefix), FormatRFC3339(t))
    IN  {keys[i] : i \in 1..Len(keys)}

\* the expiry-index keys of node n of graph g, for any timestamp
ExpiryKeysOf(s, g, n) ==
    {k \in DOMAIN s :
        \E t \in 0..(MaxTime + MaxTTL) : k = EncodeExpiryIndexKey(g, n, t)}

\* C7: a sweep leaves no node whose ExpiresAt was earlier than now, and no
\* edge incident on such a node
C7_SweepRemovesExpiredNodes ==
    [][last'.op = "Cleanup" =>
        \A g \in dom.graphs : \A n \in StoredNodes(store, g) :
            (n.exp # NoExpiry /\ n.exp < now) =>
                /\ ~NodeFound(store', g, n.id)
                /\ \A e \in StoredEdges(store', g) : e.from # n.id /\ e.to # n.id]_vars

\* C8: a sweep collects only expiry entries whose timestamp is at most now,
\* and never removes a node whose ExpiresAt is later than now
C8_SweepSparesUnexpiredNodes ==
    [][last'.op = "Cleanup" =>
        /\ \A k \in Collected(store, now) : \A t \in 0..MaxTime :
              HasPrefix(k, ExpiryIndexPrefix \o FormatRFC3339(t) \o Colon) => t <= now
        /\ \A g \in dom.graphs : \A n \in StoredNodes(store, g) :
              n.exp > now => n \in StoredNodes(store', g)]_vars

\* C9: a stored node that carries an ExpiresAt has exactly one expiry-index
\* entry, the one keyed by its current ExpiresAt
C9_OneExpiryEntryPerNode ==
    \A g \in dom.graphs : \A n \in StoredNodes(store, g) :
        n.exp # NoExpiry =>
            ExpiryKeysOf(store, g, n.id) = {EncodeExpiryIndexKey(g, n.id, n.exp)}

\* C10: a create_node of an ID already stored succeeds, get_node then
\* returns the new node's type, attributes (as JSON values) and ExpiresAt,
\* and count_nodes is what it was before
C10_CreateNodeOverwrites ==
    [][(last'.op = "CreateNode" /\ NodeFound(store, last'.g, last'.arg.id)) =>
        /\ last'.ok
        /\ NodeFound(store', last'.g, last'.arg.id)
        /\ LET got == TxGetNode(store', last'.g, last'.arg.id) IN
              /\ got.type = last'.arg.type
              /\ AttrsToJSON(got.attrs) = AttrsToJSON(last'.arg.attrs)
              /\ got.exp = last'.arg.exp
        /\ CountNodes(store', last'.g) = CountNodes(store, last'.g)]_vars

\* a node has just been created over a stored node of another type and
\* other attributes, with an expiry, and one node is counted
C10_Witness ==
    /\ last.op = "CreateNode"
    /\ last.ok
    /\ last.arg.exp # NoExpiry
    /\ NodeFound(store, last.g, last.arg.id)
    /\ \E t \in 0..MaxTime :
          /\ t # last.arg.exp
          /\ Has(store, EncodeExpiryIndexKey(last.g, last.arg.id, t))
    /\ \E ty \in {n.type : n \in dom.nodes} :
          /\ ty # last.arg.type
          /\ Has(store, EncodeNodeTypeIndexKey(last.g, ty, last.arg.id))
    /\ CountNodes(store, last.g) = 1

(***************************************************************************)
(* Errors and atomicity.                                                   *)
(***************************************************************************)
\* the write operations of the engine that can return an error
FallibleWrites ==
    {"UpdateGraph", "UpdateNode", "DeleteNode", "CreateEdge", "UpdateEdge", "DeleteEdge"}

\* C11: a write operation that returns an error leaves the store exactly as
\* it was before the call
C11_FailedWriteChangesNothing ==
    [][(last'.op \in FallibleWrites /\ ~last'.ok) => store' = store]_vars

\* an update_edge has just failed because the new source node it names does
\* not exist; the edge record and the adjacency and type entries of its old
\* endpoints are there
C11_Witness ==
    /\ last.op = "UpdateEdge"
    /\ ~last.ok
    /\ EdgeFound(store, last.g, last.arg.id)
    /\ ~NodeFound(store, last.g, last.arg.from)
    /\ LET old == TxGetEdge(store, last.g, last.arg.id) IN
          /\ old.from # last.arg.from
          /\ Has(store, EncodeNodeOutEdgeIndexKey(last.g, old.from, old.id))
          /\ Has(store, EncodeNodeInEdgeIndexKey(last.g, old.to, old.id))
          /\ Has(store, EncodeEdgeTypeIndexKey(last.g, old.type, old.id))

(***************************************************************************)
(* Expiry of edges.                                                        *)
(***************************************************************************)
\* C16: an edge stored with an ExpiresAt is not retrievable once the clock
\* has reached that time, whether or not a sweep has run, and the step in
\* which it expires leaves its endpoint nodes stored
C16_EdgeExpiresWithoutSweep ==
    [][/\ \A g \in dom.graphs : \A e \in StoredEdges(store', g) :
              e.exp # NoExpiry => e.exp > now'
       /\ last'.op = "AdvanceClock" =>
              \A g \in dom.graphs : \A e \in StoredEdges(store, g) :
                  (e.exp # NoExpiry /\ e.exp <= now') =>
                      /\ ~EdgeFound(store', g, e.id)
                      /\ NodeFound(store, g, e.from) => NodeFound(store', g, e.from)
                      /\ NodeFound(store, g, e.to) => NodeFound(store', g, e.to)]_vars

\* the clock has just advanced, an edge that was created with a TTL is gone
\* although its adjacency entries are still there, no sweep having removed
\* them, and both endpoint nodes are stored
C16_Witness ==
    /\ last.op = "AdvanceClock"
    /\ \E g \in dom.graphs : \E e \in dom.edges :
          /\ e.exp # NoExpiry
          /\ e.exp <= now
          /\ ~EdgeFound(store, g, e.id)
          /\ Has(store, EncodeNodeOutEdgeIndexKey(g, e.from, e.id))
          /\ Has(store, EncodeNodeInEdgeIndexKey(g, e.to, e.id))
          /\ NodeFound(store, g, e.from)
          /\ NodeFound(store, g, e.to)

(***************************************************************************)
(* Deletes of entities that are not stored.                                *)
(***************************************************************************)
\* C18: delete_graph of a graph that is not stored succeeds, and a
\* delete_graph run again on the state a delete_graph left changes nothing;
\* delete_node and delete_edge of an entity that is not stored fail and
\* change nothing
C18_DeletesOfMissingEntities ==
    [][/\ (last'.op = "DeleteGraph" /\ ~Has(store, EncodeGraphKey(last'.g))) =>
              last'.ok
       /\ last'.op = "DeleteGraph" =>
              /\ ~TxDeleteGraph(store', last'.g).err
              /\ Commit(store', TxDeleteGraph(store', last'.g)) = store'
       /\ (last'.op = "DeleteNode" /\ ~NodeFound(store, last'.g, last'.arg.id)) =>
              (~last'.ok /\ store' = store)
       /\ (last'.op = "DeleteEdge" /\ ~EdgeFound(store, last'.g, last'.arg.id)) =>
              (~last'.ok /\ store' = store)]_vars

\* a delete_graph has just succeeded on a graph that has no record, with
\* node records of that graph left in the store
C18_Witness ==
    /\ last.op = "DeleteGraph"
    /\ last.ok
    /\ ~Has(store, EncodeGraphKey(last.g))
    /\ CountNodes(store, last.g) > 0

(***************************************************************************)
(* Graph records.                                                          *)
(***************************************************************************)
\* BadgerEngine.GetGraph: found, and the graph read
GraphFound(s, g) == Has(s, EncodeGraphKey(g))
GetGraph(s, g) == FromJSON(s[EncodeGraphKey(g)].val)

\* C19, as stated: create_graph and update_graph both upsert, so an
\* update_graph of a graph ID that is not stored creates the record and
\* succeeds, and a create_graph of a stored ID overwrites it and succeeds
C19_GraphCreateAndUpdateUpsert ==
    [][(last'.op \in {"CreateGraph", "UpdateGraph"}) =>
          /\ last'.ok
          /\ GraphFound(store', last'.g)
          /\ GetGraph(store', last'.g) = last'.arg]_vars

\* C19, amended: create_graph upserts, it succeeds and stores its argument
\* whether or not the ID is stored; update_graph of a stored ID succeeds and
\* stores its argument, update_graph of an ID that is not stored fails and
\* writes nothing
C19_GraphUpdateNeedsStoredGraph ==
    [][/\ (last'.op = "CreateGraph"
             \/ (last'.op = "UpdateGraph" /\ GraphFound(store, last'.g))) =>
              /\ last'.ok
              /\ GraphFound(store', last'.g)
              /\ GetGraph(store', last'.g) = last'.arg
       /\ (last'.op = "UpdateGraph" /\ ~GraphFound(store, last'.g)) =>
              (~last'.ok /\ store' = store)]_vars

\* an update_graph has just failed on a graph ID that has no record
C19_Witness ==
    /\ last.op = "UpdateGraph"
    /\ ~last.ok
    /\ ~GraphFound(store, last.g)

(***************************************************************************)
(* Updates that remove an expiry.                                          *)
(***************************************************************************)
\* C17: after a NODE.UPDATE with TTL 0 has succeeded the node has no
\* ExpiresAt and no expiry-index entry and no sweep at any later time
\* removes it; after an EDGE.UPDATE with TTL 0 has succeeded the edge has no
\* ExpiresAt, its record has no TTL and it is there at every later time
C17_UpdateWithTTLZeroRemovesExpiry ==
    [][/\ (last'.op = "NODE.UPDATE" /\ last'.ok /\ last'.arg.ttl = 0) =>
              /\ NodeFound(store', last'.g, last'.arg.id)
              /\ TxGetNode(store', last'.g, last'.arg.id).exp = NoExpiry
              /\ ExpiryKeysOf(store', last'.g, last'.arg.id) = {}
              /\ \A t \in now'..MaxTime :
                    NodeFound(CleanupExpiredNodes(Expire(store', t), t),
                              last'.g, last'.arg.id)
       /\ (last'.op = "EDGE.UPDATE" /\ last'.ok /\ last'.arg.ttl = 0) =>
              /\ EdgeFound(store', last'.g, last'.arg.id)
              /\ TxGetEdge(store', last'.g, last'.arg.id).exp = NoExpiry
              /\ store'[EncodeEdgeKey(last'.g, last'.arg.id)].ttl = NoExpiry
              /\ \A t \in now'..MaxTime :
                    EdgeFound(Expire(store', t), last'.g, last'.arg.id)]_vars

(***************************************************************************)
(* Concurrent update commands.                                             *)
(***************************************************************************)
\* a command run as one atomic read-modify-write on the store s
RunCommand(s, command) ==
    IF command.cmd = "NODE.UPDATE"
    THEN IF ~NodeFound(s, command.g, command.id) THEN s
         ELSE Commit(s, TxUpdateNode(s, command.g,
                  WithUpdate(TxGetNode(s, command.g, command.id),
                             command.attrs, command.ttl, command.at)))
    ELSE IF ~EdgeFound(s, command.g, command.id) THEN s
         ELSE Commit(s, TxUpdateEdge(s, command.g,
                  WithUpdate(TxGetEdge(s, command.g, command.id),
                             command.attrs, command.ttl, command.at),
                  command.at))

\* the commands run one after the other in the given order
RECURSIVE RunInOrder(_, _, _)
RunInOrder(s, cmds, order) ==
    IF order = <<>> THEN s
    ELSE RunInOrder(RunCommand(s, cmds[Head(order)]), cmds, Tail(order))

\* the stores that the serial orders of the commands lead to
SerialOutcomes(s, cmds) ==
    {RunInOrder(s, cmds, order) :
        order \in {o \in [1..Len(cmds) -> 1..Len(cmds)] :
                      \A i, j \in 1..Len(cmds) : o[i] = o[j] => i = j}}

\* C12: when the update commands that overlapped have all returned, the
\* store (the entities with their attributes and ExpiresAt, and the expiry
\* index) is what running these commands one at a time, in some order, on
\* the store they started from leads to
C12_UpdatesAreSerializable ==
    [][(race # NoRace /\ race' = NoRace) =>
          store' \in SerialOutcomes(race.base, race.cmds)]_vars

(***************************************************************************)
(* A client and the sweeper delete the same node.                          *)
(***************************************************************************)
\* the sweeper has collected an expiry key of node n of graph g and has not
\* yet run its DeleteNode
SweeperHolds(g, n) ==
    \E i \in 1..Len(sweeper.keys) :
        DecodeExpiryIndexKey(sweeper.keys[i]) = <<g, n>>

\* C13: while the sweeper holds a node's expiry key, a deletion of that
\* node by a client or by the sweeper succeeds if the node is stored, and
\* then the node, its incident edges and their index entries are gone; if
\* the other deletion came first it fails and changes nothing
C13_OneOfTwoDeletionsSucceeds ==
    [][\A g \in dom.graphs : \A n \in NodeIDs :
          (/\ SweeperHolds(g, n)
           /\ last'.op \in {"DeleteNode", "SweepDelete"}
           /\ last'.g = g
           /\ last'.arg = Bytes(n))
          => IF NodeFound(store, g, n)
             THEN /\ last'.ok
                  /\ ~NodeFound(store', g, n)
                  /\ \A e \in StoredEdges(store', g) : e.from # n /\ e.to # n
                  /\ KeysWithPrefix(store', OutgoingPrefix(g, n)) = {}
                  /\ KeysWithPrefix(store', IncomingPrefix(g, n)) = {}
             ELSE ~last'.ok /\ store' = store]_vars

(***************************************************************************)
(* Close while the sweeper runs.                                           *)
(***************************************************************************)
\* C15: once the stop signal is given, a sweep in progress still deletes
\* every node it collected that is stored, and no further sweep starts
C15_StopLetsSweepFinish ==
    [][engine.stopped =>
          /\ (last'.op = "SweepDelete" /\ sweeper' # sweeper) =>
                LET d == DecodeExpiryIndexKey(Head(sweeper.keys))
                IN  NodeFound(store, d[1], d[2]) => ~NodeFound(store', d[1], d[2])
          /\ ~(sweeper.tick /\ ~sweeper'.tick)]_vars

(***************************************************************************)
(* Analysis next to writers.                                               *)
(***************************************************************************)
\* C14: the cycles ANALYSIS.CYCLES returns are the cycles of the graph as
\* one of the stores it read from held it, so that no write committed
\* between two of its reads shows in the result
C14_AnalysisReadsOneSnapshot ==
    [][\A c \in dom.clients :
          (/\ conns[c].cmd = "ANALYSIS.CYCLES"
           /\ conns[c].pc = "done"
           /\ conns'[c] = Idle)
          => \E s \in conns[c].reads :
                UniqueCycles(conns[c]) = FindAllCycles(s, conns[c].g)]_vars

(***************************************************************************)
(* Shortest path.                                                          *)
(***************************************************************************)
\* the nodes a forward path of at most k edges of E leads to
RECURSIVE Within(_, _, _)
Within(E, fromNodeID, k) ==
    IF k = 0 THEN {fromNodeID}
    ELSE LET W == Within(E, fromNodeID, k - 1)
         IN  W \cup {e.to : e \in {x \in E : x.from \in W}}

\* the length of the shortest forward path, -1 if there is none
ForwardDistance(E, fromNodeID, toNodeID) ==
    LET N == Cardinality(NodeIDs)
    IN  IF toNodeID \notin Within(E, fromNodeID, N) THEN -1
        ELSE CHOOSE k \in 0..N :
                /\ toNodeID \in Within(E, fromNodeID, k)
                /\ k = 0 \/ toNodeID \notin Within(E, fromNodeID, k - 1)

\* C20: for two stored nodes joined by a forward path of stored edges,
\* GetShortestPath returns a path from the source to the target whose
\* consecutive nodes are joined by the listed edges and whose length is
\* the minimum over all forward paths
C20_ShortestPathIsMinimalForwardPath ==
    \A g \in dom.graphs : \A fromNodeID \in NodeIDs : \A toNodeID \in NodeIDs :
        LET E == StoredEdges(store, g)
            d == ForwardDistance(E, fromNodeID, toNodeID)
            r == GetShortestPath(store, g, fromNodeID, toNodeID)
        IN  (NodeFound(store, g, fromNodeID) /\ NodeFound(store, g, toNodeID) /\ d >= 0)
            => /\ ~r.err
               /\ r.path[1] = fromNodeID
               /\ r.path[Len(r.path)] = toNodeID
               /\ Len(r.edges) = Len(r.path) - 1
               /\ \A i \in 1..Len(r.edges) :
                     \E e \in E : /\ e.id = r.edges[i]
                                  /\ e.from = r.path[i]
                                  /\ e.to = r.path[i + 1]
               /\ r.length = d

(***************************************************************************)
(* Path queries.                                                           *)
(***************************************************************************)
\* the forward paths of exactly d edges of E from one node to another, each
\* as its node sequence and its edge sequence
ForwardPaths(E, fromNodeID, toNodeID, d) ==
    IF d = 0
    THEN IF fromNodeID = toNodeID THEN {[path |-> <<fromNodeID>>, edges |-> <<>>]}
         ELSE {}
    ELSE LET walks == {w \in [1..d -> E] :
                          /\ w[1].from = fromNodeID
                          /\ w[d].to = toNodeID
                          /\ \A i \in 1..(d - 1) : w[i].to = w[i + 1].from}
         IN  {[path  |-> <<fromNodeID>> \o [i \in 1..d |-> w[i].to],
               edges |-> [i \in 1..d |-> w[i].id]] : w \in walks}

\* C21: for two nodes joined by a forward path, AllShortestPaths returns
\* the forward paths of minimum length and nothing else: every such path
\* is returned, and every returned node and edge sequence is one of them
C21_AllShortestPathsAreTheMinimalPaths ==
    last.op = "AllShortestPaths" =>
        LET E == StoredEdges(store, last.g)
            d == ForwardDistance(E, last.arg.from, last.arg.to)
            returned == {[path |-> last.arg.paths[i].path,
                          edges |-> last.arg.paths[i].edges] :
                            i \in 1..Len(last.arg.paths)}
        IN  d >= 0 =>
              /\ returned = ForwardPaths(E, last.arg.from, last.arg.to, d)
              /\ \A i \in 1..Len(last.arg.paths) : last.arg.paths[i].length = d

\* C22: GetShortestPath fails whenever no forward path joins the source to
\* the target, and whenever the source or the target is not stored
C22_ShortestPathFailsWithoutPath ==
    last.op = "GetShortestPath" =>
        LET d == ForwardDistance(StoredEdges(store, last.g), last.arg.from, last.arg.to)
        IN  (\/ d < 0
             \/ ~NodeFound(store, last.g, last.arg.from)
             \/ ~NodeFound(store, last.g, last.arg.to))
            => ~last.ok

(***************************************************************************)
(* Cycles.                                                                 *)
(***************************************************************************)
\* the edges of E the edge-type filter allows
AllowedEdges(E, edgeTypes) ==
    IF edgeTypes = {} THEN E ELSE {e \in E : e.type \in edgeTypes}

\* E holds a directed cycle: some edge's start is reachable from its end
HasDirectedCycle(E) ==
    \E e \in E : e.from \in Within(E, e.to, Cardinality(NodeIDs))

\* C23: HasCycles is true exactly if the stored edges the edge-type filter
\* allows hold a directed cycle, a self-loop included
C23_HasCyclesIffDirectedCycle ==
    last.op = "HasCycles" =>
        (last.arg.result <=>
            HasDirectedCycle(AllowedEdges(StoredEdges(store, last.g), last.arg.edgeTypes)))

\* the elementary directed cycles of E as node sequences that start and end
\* at their smallest node ID
ElementaryCycles(E) ==
    LET rounds == UNION {[1..n -> NodeIDs] : n \in 1..Cardinality(NodeIDs)}
        Joined(x, y) == \E e \in E : e.from = x /\ e.to = y
        IsCycle(p) ==
            LET n == Len(p) IN
            /\ \A i \in 1..n : \A j \in 1..n : i # j => p[i] # p[j]
            /\ \A j \in 2..n : StrLess(p[1], p[j])
            /\ \A i \in 1..(n - 1) : Joined(p[i], p[i + 1])
            /\ Joined(p[n], p[1])
    IN  {p \o <<p[1]>> : p \in {q \in rounds : IsCycle(q)}}

\* C24: FindAllCycles returns every elementary directed cycle once, each
\* rotated to start and end at its smallest node ID, and nothing else
C24_FindAllCyclesEnumeratesElementaryCycles ==
    last.op = "FindAllCycles" =>
        last.arg.cycles = ElementaryCycles(StoredEdges(store, last.g))

(***************************************************************************)
(* Depth-first search.                                                     *)
(***************************************************************************)
\* the nodes a forward path of E leads to from the start without passing
\* through a node of the set closed (the path may end in one)
RECURSIVE ReachedWithin(_, _, _, _)
ReachedWithin(E, startNodeID, closed, k) ==
    IF k = 0 THEN {startNodeID}
    ELSE LET R == ReachedWithin(E, startNodeID, closed, k - 1)
         IN  R \cup {e.to : e \in {x \in E : x.from \in R \ closed}}

Reached(E, startNodeID, closed) ==
    ReachedWithin(E, startNodeID, closed, Cardinality(NodeIDs))

\* the IDs of the nodes a traversal returned
ResultIDs(result) == {result.nodes[i].id : i \in 1..Len(result.nodes)}

C26_StopNodeIsStillReturned ==
    (/\ last.op = "DepthFirstSearch"
     /\ NodeFound(store, last.g, last.arg.start))
    => LET r == last.arg.result
           reached == Reached(StoredEdges(store, last.g), last.arg.start,
                              last.arg.options.stop)
       IN  /\ last.ok
           /\ ResultIDs(r) =
                 {n \in reached :
                     \/ last.arg.options.nodeTypes = {}
                     \/ TxGetNode(store, last.g, n).type \in last.arg.options.nodeTypes}

\* the results of a traversal as a set of [path, edges]
PathsOf(result) ==
    {[path |-> result.paths[i].path, edges |-> result.paths[i].edges] :
        i \in 1..Len(result.paths)}

\* C27: in a result of the all-paths enumeration with direction both no
\* edge is followed by itself, so no path walks over one edge and back;
\* and when the stored edges are a chain a -> b -> c, the enumeration from
\* b returns two paths, b to c over the second edge and b to a over the
\* first one
C27_BothNeverRetakesTheEdge ==
    (/\ last.op = "AllPathsTraversal"
     /\ last.arg.options.direction = "both"
     /\ NodeFound(store, last.g, last.arg.start))
    => LET r == last.arg.result
           E == StoredEdges(store, last.g)
       IN  /\ last.ok
           /\ \A i \in 1..Len(r.paths) :
                 \A j \in 1..(Len(r.paths[i].edges) - 1) :
                     r.paths[i].edges[j] # r.paths[i].edges[j + 1]
           /\ (/\ last.arg.start = <<"b">>
               /\ \E x, y \in E :
                     /\ E = {x, y}
                     /\ x.from = <<"a">> /\ x.to = <<"b">>
                     /\ y.from = <<"b">> /\ y.to = <<"c">>)
              => /\ Len(r.paths) = 2
                 /\ PathsOf(r) =
                       {[path |-> <<last.arg.start, e.to>>, edges |-> <<e.id>>] :
                           e \in {x \in E : x.from = last.arg.start}}
                       \cup
                       {[path |-> <<last.arg.start, e.from>>, edges |-> <<e.id>>] :
                           e \in {x \in E : x.to = last.arg.start}}

\* the number of edges of the longest simple path of E that starts at n
\* and avoids the nodes of closed
RECURSIVE LongestSimplePath(_, _, _)
LongestSimplePath(E, n, closed) ==
    LET next == {e \in E : e.from = n /\ e.to \notin closed \cup {n}}
        lengths == {1 + LongestSimplePath(E, e.to, closed \cup {n}) : e \in next}
    IN  IF next = {} THEN 0
        ELSE CHOOSE m \in lengths : \A k \in lengths : k <= m

\* the stored nodes no stored edge leads to
Roots(s, g) ==
    {n \in NodeIDs : /\ NodeFound(s, g, n)
                     /\ ~\E e \in StoredEdges(s, g) : e.to = n}

\* C28: max_depth is the number of edges of the longest simple path that
\* starts at a root of the graph, 0 for a graph without root
C28_MaxDepthIsLongestSimplePath ==
    (last.op = "GetMaxDepth")
    => LET E == StoredEdges(store, last.g)
           lengths == {LongestSimplePath(E, n, {}) : n \in Roots(store, last.g)} \cup {0}
       IN  last.arg.result = CHOOSE m \in lengths : \A k \in lengths : k <= m

\* C29: GRAPH.GET, NODE.GET and EDGE.GET of an entity that is not stored
\* reply with the protocol null
C29_GetOfAbsentEntityRepliesNull ==
    (\/ last.op = "GRAPH.GET" /\ ~Has(store, EncodeGraphKey(last.arg.id))
     \/ last.op = "NODE.GET" /\ ~NodeFound(store, last.g, last.arg.id)
     \/ last.op = "EDGE.GET" /\ ~EdgeFound(store, last.g, last.arg.id))
    => last.arg.reply = NewNullResponse

\* C30: NODE.LIST replies with an array of one element "<id>:<type>" for
\* each node stored in the graph and no other element
C30_NodeListHasOneElementPerNode ==
    (last.op = "NODE.LIST")
    => LET stored == {n \in NodeIDs : NodeFound(store, last.g, n)}
           values == last.arg.reply.values
       IN  /\ last.arg.reply.type = "array"
           /\ Len(values) = Cardinality(stored)
           /\ {values[i] : i \in 1..Len(values)} =
                 {n \o Colon \o TxGetNode(store, last.g, n).type : n \in stored}

\* the arrow notation of the forward path p of graph g, from its node i on
RECURSIVE ArrowNotation(_, _, _, _)
ArrowNotation(s, g, p, i) ==
    LET node == TxGetNode(s, g, p.path[i]) IN
    IF i = Len(p.path) THEN node.id \o Colon \o node.type
    ELSE LET edge == TxGetEdge(s, g, p.edges[i])
         IN  node.id \o Colon \o node.type \o <<"-", ">">> \o edge.id \o Colon
                 \o edge.type \o <<"-", ">">> \o ArrowNotation(s, g, p, i + 1)

\* C31: for two stored nodes of graph g joined by a forward path,
\* ANALYSIS.SHORTESTPATH with FORMAT detailed replies with an array of the
\* number of shortest paths and the arrow notation of each of them, written
\* with the nodes and edges of g; for the chain a -> b -> c it replies 1
\* and a:s->h:k->b:s->i:k->c:t
C31_DetailedShortestPathReply ==
    (/\ last.op = "ANALYSIS.SHORTESTPATH"
     /\ NodeFound(store, last.g, last.arg.from)
     /\ NodeFound(store, last.g, last.arg.to)
     /\ ForwardDistance(StoredEdges(store, last.g), last.arg.from, last.arg.to) >= 0)
    => LET E == StoredEdges(store, last.g)
           d == ForwardDistance(E, last.arg.from, last.arg.to)
           P == ForwardPaths(E, last.arg.from, last.arg.to, d)
           values == last.arg.reply.values
       IN  /\ last.arg.reply.type = "array"
           /\ Len(values) = Cardinality(P) + 1
           /\ values[1] = <<Digit(Cardinality(P))>>
           /\ {values[i] : i \in 2..Len(values)} =
                 {ArrowNotation(store, last.g, p, 1) : p \in P}
           /\ (/\ last.arg.from = <<"a">> /\ last.arg.to = <<"c">>
               /\ {[id |-> e.id, from |-> e.from, to |-> e.to] : e \in E} =
                     {[id |-> <<"h">>, from |-> <<"a">>, to |-> <<"b">>],
                      [id |-> <<"i">>, from |-> <<"b">>, to |-> <<"c">>]})
              => values = <<<<"1">>,
                            <<"a", ":", "s", "-", ">", "h", ":", "k", "-", ">",
                              "b", ":", "s", "-", ">", "i", ":", "k", "-", ">",
                              "c", ":", "t">>>>

\* the operations a client command runs
ClientOps == {"CreateNode", "DeleteNode", "CreateEdge"}

\* C32: after a signal the process first stops accepting commands, then
\* stops the TTL sweeper, then closes the KVS and only then exits: no
\* command runs once Server.Stop has returned, the sweeper is stopped only
\* when no command is accepted, the KVS is closed only after the sweeper
\* was stopped, and the process has exited only with the KVS closed
C32_GracefulShutdownOrder ==
    /\ [](engine.stopped => ~main.running)
    /\ [](engine.closed => engine.stopped)
    /\ [](main.pc = "exited" => engine.closed)
    /\ [][~main.running => last'.op \notin ClientOps]_vars

\* C33: a deletion of the sweep removes a node only if its stored record
\* has an ExpiresAt that is not later than now: a stored node without
\* ExpiresAt, or with a later one, is still stored after the deletion
C33_SweepDeletesOnlyExpiredNodes ==
    [][(/\ last'.op = "SweepDelete"
        /\ NodeFound(store, last'.g, last'.arg.id)
        /\ LET node == TxGetNode(store, last'.g, last'.arg.id)
           IN  node.exp = NoExpiry \/ node.exp > now)
       => NodeFound(store', last'.g, last'.arg.id)]_vars

\* node n has an adjacency entry of an edge whose record is gone
LeftoverAdjacency(s, g, n) ==
    \E e \in EdgeIDs :
        /\ ~EdgeFound(s, g, e)
        /\ \/ Has(s, EncodeNodeOutEdgeIndexKey(g, n, e))
           \/ Has(s, EncodeNodeInEdgeIndexKey(g, n, e))

\* C34: delete_node of a stored node that still has adjacency entries of
\* an edge whose record the KVS has expired succeeds and removes the node,
\* whether a client or the sweeper calls it
C34_DeleteNodeAfterEdgeExpiry ==
    [][(/\ last'.op \in {"DeleteNode", "SweepDelete"}
        /\ NodeFound(store, last'.g, last'.arg.id)
        /\ LeftoverAdjacency(store, last'.g, last'.arg.id))
       => (last'.ok /\ ~NodeFound(store', last'.g, last'.arg.id))]_vars

(***************************************************************************)
(* Overlapping transactions of clients and the sweeper.                    *)
(***************************************************************************)
\* a stored edge of graph g whose source or target node is not stored
DanglingEdge(s, g) ==
    \E e \in EdgeIDs :
        /\ EdgeFound(s, g, e)
        /\ \/ ~NodeFound(s, g, TxGetEdge(s, g, e).from)
           \/ ~NodeFound(s, g, TxGetEdge(s, g, e).to)

\* C35: under any interleaving of the transactions of clients and of the
\* sweeper, once all of them have committed or failed, no stored edge
\* refers to a node that is not stored
C35_NoEdgeToMissingNode ==
    (\A c \in DOMAIN conns : conns[c] = Idle) =>
        \A g \in dom.graphs : ~DanglingEdge(store, g)

(***************************************************************************)
(* UpdateGraph next to DeleteGraph.                                        *)
(***************************************************************************)
\* C36: an update_graph that returns when the graph record is not stored
\* (a delete_graph has committed before the update's write) fails, and the
\* graph record stays absent
C36_UpdateNeverRecreatesGraph ==
    [][(last'.op = "UpdateGraph" /\ ~Has(store, EncodeGraphKey(last'.g)))
          => (~last'.ok /\ ~Has(store', EncodeGraphKey(last'.g)))]_vars

(***************************************************************************)
(* The edges of a node.                                                    *)
(***************************************************************************)
\* the sequence has no edge twice and its edges are those of the set
ExactlyTheEdges(edges, S) ==
    /\ {edges[i] : i \in 1..Len(edges)} = S
    /\ \A i, j \in 1..Len(edges) : edges[i] = edges[j] => i = j

\* C37: after any sequence of edge creates (re-creates of a stored edge ID
\* with other endpoints included), updates and deletes, get_outgoing(g, n)
\* returns exactly the stored edges of g whose FromNodeID is n and
\* get_incoming(g, n) exactly those whose ToNodeID is n, also with ':' in
\* the IDs
C37_AdjacencyQueriesAreExact ==
    /\ last.op = "GetOutgoingEdges" =>
          ExactlyTheEdges(last.arg.edges,
                          {e \in StoredEdges(store, last.g) : e.from = last.arg.id})
    /\ last.op = "GetIncomingEdges" =>
          ExactlyTheEdges(last.arg.edges,
                          {e \in StoredEdges(store, last.g) : e.to = last.arg.id})

(***************************************************************************)
(* Isolation of the graphs.                                                *)
(***************************************************************************)
\* the keys of the node and edge records of graph h
RecordKeys(h) ==
    {EncodeNodeKey(h, n) : n \in NodeIDs} \cup {EncodeEdgeKey(h, e) : e \in EdgeIDs}

\* the node and edge records of graph h in the store s
RecordsOf(s, h) == [k \in RecordKeys(h) \cap DOMAIN s |-> s[k]]

\* the store s without the node and edge records of graph h
WithoutGraph(s, h) == [k \in DOMAIN s \ RecordKeys(h) |-> s[k]]

\* C38: for distinct graph IDs g and h (h = g followed by ':' and a suffix
\* included), list_nodes(g), list_edges(g), count_nodes(g) and
\* count_edges(g) return what they return without the nodes and edges of
\* h, and delete_graph(g) leaves the nodes and edges of h as they are
C38_GraphsAreIsolated ==
    [][\A h \in dom.graphs \ {last'.g} :
          /\ last'.op = "ListNodes" =>
                last'.arg.nodes = ListNodes(WithoutGraph(store, h), last'.g)
          /\ last'.op = "ListEdges" =>
                last'.arg.edges = ListEdges(WithoutGraph(store, h), last'.g)
          /\ last'.op = "CountNodes" =>
                last'.arg.count = CountNodes(WithoutGraph(store, h), last'.g)
          /\ last'.op = "CountEdges" =>
                last'.arg.count = CountEdges(WithoutGraph(store, h), last'.g)
          /\ last'.op = "DeleteGraph" =>
                RecordsOf(store', h) = RecordsOf(store, h)]_vars

(***************************************************************************)
(* Depth-limited traversal.                                                *)
(***************************************************************************)
\* the edges of E that pass the edge-type filter
AllowedByType(E, edgeTypes) == {e \in E : edgeTypes = {} \/ e.type \in edgeTypes}

\* C39: a depth-first search with max_depth = d >= 0 from a stored node
\* returns the nodes whose shortest distance from the start, along forward
\* edges that pass the edge-type filter, is at most d, and no other node
C39_DepthLimitIsShortestDistance ==
    (/\ last.op = "DepthFirstSearch"
     /\ last.arg.options.maxDepth >= 0
     /\ NodeFound(store, last.g, last.arg.start))
    => /\ last.ok
       /\ ResultIDs(last.arg.result) =
             Within(AllowedByType(StoredEdges(store, last.g), last.arg.options.edgeTypes),
                    last.arg.start, last.arg.options.maxDepth)

(***************************************************************************)
(* Dependencies and dependents without options.                            *)
(***************************************************************************)
\* the edges of E turned around
Reversed(E) == {[e EXCEPT !.from = e.to, !.to = e.from] : e \in E}

\* C40: get_all_dependencies and get_all_dependents of a stored node, called
\* without options, return all transitive dependencies (the nodes a forward
\* path leads to), respectively dependents (the nodes from which a forward
\* path leads to the node), which is what they return with max_depth = -1
C40_NilOptionsMeanNoDepthLimit ==
    /\ (/\ last.op = "GetAllDependencies"
        /\ last.arg.options = Nil
        /\ NodeFound(store, last.g, last.arg.start))
       => /\ last.ok
          /\ ResultIDs(last.arg.result) =
                Reached(StoredEdges(store, last.g), last.arg.start, {}) \ {last.arg.start}
          /\ last.arg.result =
                GetAllDependencies(store, last.g, last.arg.start, <<Unlimited>>)
    /\ (/\ last.op = "GetAllDependents"
        /\ last.arg.options = Nil
        /\ NodeFound(store, last.g, last.arg.start))
       => /\ last.ok
          /\ ResultIDs(last.arg.result) =
                Reached(Reversed(StoredEdges(store, last.g)), last.arg.start, {})
                    \ {last.arg.start}
          /\ last.arg.result =
                GetAllDependents(store, last.g, last.arg.start, <<Unlimited>>)

====
